---- MODULE Spec2Model ----
(***************************************************************************)
(* Command-translation and execution pipeline of the AnyType AI assistant: *)
(*   services/mcpTranslationService.ts  (src/unnamed/part_002)             *)
(*   prompts/mcpTranslation.ts          (src/unnamed/part_009)             *)
(*   services/mcpChatHandler.ts, services/anytypeService.ts,               *)
(*   services/aiService.ts                                                 *)
(*                                                                         *)
(* Text is a sequence of atoms.  An atom is a one-character string, or an  *)
(* indivisible fragment of a fixed message ("Validation failed", ...).     *)
(* String.includes is contiguous-subsequence search over atoms,            *)
(* String.length is the number of atoms, concatenation is \o.              *)
(***************************************************************************)
EXTENDS Integers, Sequences, FiniteSets, TLC

\* ------------------------------------------------------------------------
\* Bounds of the model (not program constants)
\* ------------------------------------------------------------------------
\* largest `retries` argument passed to translateWithRetry when it is called directly
MaxRetriesArg == 2

\* ------------------------------------------------------------------------
\* Program constants
\* ------------------------------------------------------------------------
MAX_RETRIES == 2
AI_CALL_TIMEOUT == 30000

\* ------------------------------------------------------------------------
\* Text helpers (String.prototype)
\* ------------------------------------------------------------------------
WhiteSpace == {" ", "\t", "\n"}

Upper ==
  <<"A","B","C","D","E","F","G","H","I","J","K","L","M",
    "N","O","P","Q","R","S","T","U","V","W","X","Y","Z">>
Lower ==
  <<"a","b","c","d","e","f","g","h","i","j","k","l","m",
    "n","o","p","q","r","s","t","u","v","w","x","y","z">>

LowerOf(c) ==
  IF \E k \in 1..Len(Upper) : Upper[k] = c
  THEN Lower[CHOOSE k \in 1..Len(Upper) : Upper[k] = c]
  ELSE c

toLowerCase(s) ==
  [i \in 1..Len(s) |-> LowerOf(s[i])]

\* index of the first / last atom that is not white space (0 when there is none)
FirstInk(s) ==
  IF \E i \in 1..Len(s) : s[i] \notin WhiteSpace
  THEN CHOOSE i \in 1..Len(s) : s[i] \notin WhiteSpace /\ \A j \in 1..(i-1) : s[j] \in WhiteSpace
  ELSE 0

LastInk(s) ==
  IF \E i \in 1..Len(s) : s[i] \notin WhiteSpace
  THEN CHOOSE i \in 1..Len(s) : s[i] \notin WhiteSpace /\ \A j \in (i+1)..Len(s) : s[j] \in WhiteSpace
  ELSE 0

trim(s) == IF FirstInk(s) = 0 THEN <<>> ELSE SubSeq(s, FirstInk(s), LastInk(s))

startsWith(s, prefix) ==
  /\ Len(prefix) <= Len(s)
  /\ \A i \in 1..Len(prefix) : s[i] = prefix[i]

includes(s, sub) ==
  \E k \in 0..(Len(s) - Len(sub)) : \A i \in 1..Len(sub) : s[k + i] = sub[i]

\* ------------------------------------------------------------------------
\* JavaScript values as they come out of JSON.parse
\*   t       : typeof tag ("undefined", "null", "string", "number", "object")
\*   s       : the text of a string
\*   n       : the value of a number
\*   entries : the own properties of an object, in insertion order
\* ------------------------------------------------------------------------
Undefined == [t |-> "undefined", s |-> <<>>, n |-> 0, entries |-> <<>>]
Null == [t |-> "null", s |-> <<>>, n |-> 0, entries |-> <<>>]
Str(s) == [t |-> "string", s |-> s, n |-> 0, entries |-> <<>>]
Num(n) == [t |-> "number", s |-> <<>>, n |-> n, entries |-> <<>>]
Obj(entries) == [t |-> "object", s |-> <<>>, n |-> 0, entries |-> entries]
Prop(k, v) == [key |-> k, value |-> v]

\* ToBoolean
Truthy(v) ==
  CASE v.t = "string" -> v.s # <<>>
    [] v.t = "number" -> v.n # 0
    [] v.t = "object" -> TRUE
    [] OTHER -> FALSE

\* Object.entries(v): own enumerable properties; a string has one per character
ObjectEntries(v) ==
  CASE v.t = "object" -> v.entries
    [] v.t = "string" -> [i \in 1..Len(v.s) |-> Prop(ToString(i - 1), Str(<<v.s[i]>>))]
    [] OTHER -> <<>>

\* v[k] for a property name k
GetProp(v, k) ==
  IF v.t = "object" /\ \E i \in 1..Len(v.entries) : v.entries[i].key = k
  THEN v.entries[CHOOSE i \in 1..Len(v.entries) : v.entries[i].key = k].value
  ELSE Undefined

\* k in v, for an object v (the operator throws on primitives)
HasProp(v, k) == \E i \in 1..Len(v.entries) : v.entries[i].key = k

\* String(v) as used by template literals
ToText(v) ==
  CASE v.t = "string" -> v.s
    [] v.t = "number" -> <<ToString(v.n)>>
    [] v.t = "object" -> <<"[object Object]">>
    [] v.t = "null" -> <<"null">>
    [] OTHER -> <<"undefined">>

\* ------------------------------------------------------------------------
\* prompts/mcpTranslation.ts
\* ------------------------------------------------------------------------
RuleActions ==
  {"CREATE_OBJECT", "UPDATE_OBJECT", "DELETE_OBJECT", "SEARCH_OBJECTS",
   "LIST_OBJECTS", "ADD_RELATION", "GET_OBJECT"}

\* required: in declaration order; maxLength: <<parameter, limit>> in declaration order
COMMAND_VALIDATION_RULES ==
  [a \in RuleActions |->
     CASE a = "CREATE_OBJECT" ->
            [required |-> <<"name", "type_key">>,
             maxLength |-> << <<"name", 256>>, <<"body", 10000>> >>]
       [] a = "UPDATE_OBJECT" ->
            [required |-> <<"object_id">>,
             maxLength |-> << <<"name", 256>>, <<"body", 10000>> >>]
       [] a = "DELETE_OBJECT" -> [required |-> <<"object_id">>, maxLength |-> << >>]
       [] a = "SEARCH_OBJECTS" ->
            [required |-> <<"query">>, maxLength |-> << <<"query", 1000>> >>]
       [] a = "LIST_OBJECTS" -> [required |-> << >>, maxLength |-> << >>]
       [] a = "ADD_RELATION" ->
            [required |-> <<"source_object_id", "target_object_id", "relation_type">>,
             maxLength |-> << >>]
       [] a = "GET_OBJECT" -> [required |-> <<"object_id">>, maxLength |-> << >>]]

\* property names every object literal inherits from Object.prototype
ObjectPrototypeKeys == {"constructor", "toString", "valueOf", "hasOwnProperty"}

\* the property key a value is converted to when it indexes an object
PropertyKey(v) == IF Len(ToText(v)) = 1 THEN ToText(v)[1] ELSE "?"

\* ------------------------------------------------------------------------
\* services/mcpTranslationService.ts : validateMcpCommand
\*   result: threw = TRUE when the function throws (error is the message),
\*           otherwise {valid, error}
\* ------------------------------------------------------------------------
Valid == [threw |-> FALSE, valid |-> TRUE, error |-> <<>>]
Invalid(msg) == [threw |-> FALSE, valid |-> FALSE, error |-> msg]
Threw(msg) == [threw |-> TRUE, valid |-> FALSE, error |-> msg]
NotValidated == [threw |-> FALSE, valid |-> FALSE, error |-> <<>>]

\* the first index of a loop at which its condition holds (0: at none)
FirstOf(S) == IF S = {} THEN 0 ELSE CHOOSE i \in S : \A j \in S : i <= j

\* variant: a string as long as the limit is rejected too
CheckMaxLengthInclusive(rules, command) ==
  LET over == {i \in 1..Len(rules.maxLength) :
                 LET v == GetProp(command.parameters, rules.maxLength[i][1])
                 IN v.t = "string" /\ Len(v.s) >= rules.maxLength[i][2]}
      i == FirstOf(over)
  IN IF i = 0 THEN Valid
     ELSE Invalid(<<"Parameter ", rules.maxLength[i][1], " exceeds maximum length of ",
                    ToString(rules.maxLength[i][2])>>)

CheckMaxLength(rules, command) ==
  LET over == {i \in 1..Len(rules.maxLength) :
                 LET v == GetProp(command.parameters, rules.maxLength[i][1])
                 IN v.t = "string" /\ Len(v.s) > rules.maxLength[i][2]}
      i == FirstOf(over)
  IN IF i = 0 THEN Valid
     ELSE Invalid(<<"Parameter ", rules.maxLength[i][1], " exceeds maximum length of ",
                    ToString(rules.maxLength[i][2])>>)

CheckNotEmpty(rules, command) ==
  LET es == ObjectEntries(command.parameters)
      empty == {i \in 1..Len(es) : es[i].value.t = "string" /\ trim(es[i].value.s) = <<>>}
      i == FirstOf(empty)
  IN IF i = 0 THEN CheckMaxLength(rules, command)
     ELSE Invalid(<<"Parameter ", es[i].key, " cannot be empty">>)

\* variant: only the first required parameter is looked for
CheckRequiredFirstOnly(rules, command) ==
  IF Len(rules.required) > 0 /\ command.parameters.t # "object"
  THEN Threw(<<"Cannot use 'in' operator to search for '", rules.required[1], "' in ">>
             \o ToText(command.parameters))
  ELSE IF Len(rules.required) > 0 /\ ~HasProp(command.parameters, rules.required[1])
       THEN Invalid(<<"Missing required parameter: ", rules.required[1]>>)
       ELSE CheckNotEmpty(rules, command)

CheckRequired(rules, command) ==
  LET missing == {i \in 1..Len(rules.required) : ~HasProp(command.parameters, rules.required[i])}
      i == FirstOf(missing)
  IN IF Len(rules.required) > 0 /\ command.parameters.t # "object"
     THEN Threw(<<"Cannot use 'in' operator to search for '", rules.required[1], "' in ">>
                \o ToText(command.parameters))
     ELSE IF i = 0 THEN CheckNotEmpty(rules, command)
          ELSE Invalid(<<"Missing required parameter: ", rules.required[i]>>)

validateMcpCommand(command) ==
  LET key == PropertyKey(command.action)
  IN IF key \in RuleActions
     THEN CheckRequired(COMMAND_VALIDATION_RULES[key], command)
     ELSE IF key \in ObjectPrototypeKeys
          THEN Threw(<<"rules.required is not iterable">>)
          ELSE Invalid(<<"Unknown action", ": ">> \o ToText(command.action))

\* ------------------------------------------------------------------------
\* Reply text of the language model: a sequence of segments
\*   space : white space only          prose : text without braces
\*   open  : a lone "{"                close : a lone "}"
\*   json  : the text of one well-formed JSON object, whose value is `json`
\*   junk  : "{...}" that is not JSON
\* No concatenation of two or more segments is itself well-formed JSON.
\* ------------------------------------------------------------------------
Seg(k, v) == [k |-> k, json |-> v]
Space == Seg("space", Undefined)
Prose == Seg("prose", Undefined)
Open == Seg("open", Undefined)
Close == Seg("close", Undefined)
Junk == Seg("junk", Undefined)
Json(v) == Seg("json", v)

HasOpen == {"open", "json", "junk"}
HasClose == {"close", "json", "junk"}

\* response.match(/\{[\s\S]*\}/): from the first "{" to the last "}" (greedy);
\* <<first, last>> segment indexes, or <<0, 0>> when there is no match
JsonMatch(response) ==
  LET opens == {i \in 1..Len(response) : response[i].k \in HasOpen}
      closes == {i \in 1..Len(response) : response[i].k \in HasClose}
      first == CHOOSE i \in opens : \A j \in opens : i <= j
      last == CHOOSE i \in closes : \A j \in closes : j <= i
  IN IF opens = {} \/ closes = {} THEN <<0, 0>>
     ELSE IF last < first THEN <<0, 0>>
     ELSE <<first, last>>

NullCommand == [action |-> Undefined, parameters |-> Undefined, description |-> Undefined]

\* variant: the structure of the parsed object is not checked
parseAiResponseUnchecked(response) ==
  LET m == JsonMatch(response)
  IN IF m = <<0, 0>> \/ m[1] # m[2] \/ response[m[1]].k # "json" THEN NullCommand
     ELSE [action |-> GetProp(response[m[1]].json, "action"),
           parameters |-> GetProp(response[m[1]].json, "parameters"),
           description |-> Str(<<"No description provided">>)]

\* services/mcpTranslationService.ts : parseAiResponse
parseAiResponse(response) ==
  LET m == JsonMatch(response)
      blank == \A i \in 1..Len(response) : response[i].k = "space"
  IN IF blank THEN NullCommand
     ELSE IF m = <<0, 0>> THEN NullCommand
     ELSE IF m[1] # m[2] \/ response[m[1]].k # "json" THEN NullCommand  \* JSON.parse throws
     ELSE LET parsed == response[m[1]].json
              action == GetProp(parsed, "action")
              parameters == GetProp(parsed, "parameters")
              description == GetProp(parsed, "description")
          IN IF ~Truthy(action) \/ ~Truthy(parameters) THEN NullCommand
             ELSE [action |-> action,
                   parameters |-> parameters,
                   description |-> IF Truthy(description) THEN description
                                   ELSE Str(<<"No description provided">>)]

\* ------------------------------------------------------------------------
\* services/aiService.ts : continueConversation
\*   outcome of the provider call: a reply text, or a thrown error
\* ------------------------------------------------------------------------
ProviderReply(text) == [threw |-> FALSE, auth |-> FALSE, text |-> text]
ProviderError(auth) == [threw |-> TRUE, auth |-> auth, text |-> <<>>]

\* every error of the provider call is caught and turned into an apology text
continueConversation(outcome) ==
  IF ~outcome.threw THEN outcome.text
  ELSE <<Prose>>   \* "It seems your ... API key is invalid. ..." / "Sorry, I encountered an error. ..."

\* ------------------------------------------------------------------------
\* services/mcpTranslationService.ts : translateToMcpCommand
\* ------------------------------------------------------------------------
\* rawResponse: <<>> when the result has none, <<response>> when it has
TranslationFailure(msg, command) ==
  [success |-> FALSE, error |-> msg, command |-> command, rawResponse |-> <<>>]
TranslationSuccess(command) ==
  [success |-> TRUE, error |-> <<>>, command |-> command, rawResponse |-> <<>>]
NoResult == [success |-> FALSE, error |-> <<>>, command |-> NullCommand, rawResponse |-> <<>>]

ErrProvideCommand == <<"Please provide a command to translate">>
ErrConfigIncomplete == <<"AI provider ", "configuration is incomplete">>
ErrParse == <<"Failed to parse", " AI response as valid MCP command">>
ErrTimeout == <<"AI service ", "timeout", ". Please try again.">>
ErrRateLimit == <<"AI service rate limit exceeded. Please try again later.">>
ErrAllRetries == <<"Translation failed", " after all retries">>
AiCallTimeout == <<"AI call ", "timeout">>

\* the catch block of translateToMcpCommand, for a thrown error with this message
TranslateCatch(errorMessage) ==
  IF includes(errorMessage, <<"timeout">>)
  THEN TranslationFailure(ErrTimeout, NullCommand)
  ELSE IF includes(errorMessage, <<"quota">>) \/ includes(errorMessage, <<"rate_limit">>)
       THEN TranslationFailure(ErrRateLimit, NullCommand)
       ELSE TranslationFailure(<<"Translation failed", ": ">> \o errorMessage, NullCommand)

\* variant: the model is not checked
TranslateGuardNoModel(userCommand, aiProvider, apiKey, model) ==
  IF userCommand = <<>> \/ trim(userCommand) = <<>>
  THEN TranslationFailure(ErrProvideCommand, NullCommand)
  ELSE IF aiProvider = <<>> \/ apiKey = <<>>
       THEN TranslationFailure(ErrConfigIncomplete, NullCommand)
       ELSE NoResult

\* the input guards: a result when one of them returns, NoResult otherwise
TranslateGuard(userCommand, aiProvider, apiKey, model) ==
  IF userCommand = <<>> \/ trim(userCommand) = <<>>
  THEN TranslationFailure(ErrProvideCommand, NullCommand)
  ELSE IF aiProvider = <<>> \/ apiKey = <<>> \/ model = <<>>
       THEN TranslationFailure(ErrConfigIncomplete, NullCommand)
       ELSE NoResult

\* the part of translateToMcpCommand after `const parsedCommand = ...`
TranslateParsed(parsedCommand, response) ==
  LET validationResult == validateMcpCommand(parsedCommand)
  IN IF parsedCommand = NullCommand
     THEN [TranslationFailure(ErrParse, NullCommand) EXCEPT !.rawResponse = <<response>>]
     ELSE IF validationResult.threw
          THEN TranslateCatch(validationResult.error)
          ELSE IF ~validationResult.valid
               THEN TranslationFailure(<<"Validation failed", ": ">> \o validationResult.error,
                                       parsedCommand)
               ELSE TranslationSuccess(parsedCommand)

\* variant: only validation failures end the loop
NoRetryValidationOnly(result) == includes(result.error, <<"Validation failed">>)

\* services/mcpTranslationService.ts : translateWithRetry, `break` condition
NoRetry(result) ==
  \/ includes(result.error, <<"Validation failed">>)
  \/ includes(result.error, <<"Failed to parse">>)

\* Math.pow(2, attempt) * 1000
RECURSIVE Pow2(_)
Pow2(k) == IF k = 0 THEN 1 ELSE 2 * Pow2(k - 1)
\* variant: the same delay before every retry
BackoffDelayFixed(attempt) == Pow2(0) * 1000

BackoffDelay(attempt) == Pow2(attempt) * 1000

\* ------------------------------------------------------------------------
\* services/mcpChatHandler.ts : shouldProcessAsMcpCommand
\* ------------------------------------------------------------------------
commandKeywords ==
  << <<"c","r","e","a","t","e">>, <<"a","d","d">>, <<"n","e","w">>, <<"m","a","k","e">>,
     <<"u","p","d","a","t","e">>, <<"m","o","d","i","f","y">>, <<"c","h","a","n","g","e">>,
     <<"d","e","l","e","t","e">>, <<"r","e","m","o","v","e">>, <<"s","e","a","r","c","h">>,
     <<"f","i","n","d">>, <<"s","h","o","w">>, <<"l","i","s","t">>, <<"g","e","t">>,
     <<"l","i","n","k">>, <<"o","r","g","a","n","i","z","e">> >>

commandPhrases ==
  << <<"c","r","e","a","t","e"," ","a">>, <<"a","d","d"," ","a">>, <<"m","a","k","e"," ","a">>,
     <<"n","e","w"," ">>, <<"s","e","a","r","c","h"," ","f","o","r">>, <<"f","i","n","d"," ">>,
     <<"l","i","s","t"," ","a","l","l">>, <<"s","h","o","w"," ","a","l","l">> >>

\* variant: the text is matched as typed
shouldProcessCaseSensitive(message) ==
  LET lowerMessage == trim(message)
  IN \/ \E i \in 1..Len(commandKeywords) : startsWith(lowerMessage, commandKeywords[i])
     \/ \E i \in 1..Len(commandPhrases) : includes(lowerMessage, commandPhrases[i])

shouldProcessAsMcpCommand(message) ==
  LET lowerMessage == trim(toLowerCase(message))
  IN \/ \E i \in 1..Len(commandKeywords) : startsWith(lowerMessage, commandKeywords[i])
     \/ \E i \in 1..Len(commandPhrases) : includes(lowerMessage, commandPhrases[i])

\* ------------------------------------------------------------------------
\* services/anytypeService.ts
\* ------------------------------------------------------------------------
\* how a fetch() settles: ok (2xx with a usable body), ok_empty (2xx whose body
\* holds no usable object), unauthorized (401), http_error (another non-2xx
\* status), network_error (fetch rejects)
FetchOutcomes == {"ok", "ok_empty", "unauthorized", "http_error", "network_error"}

\* normalizeApiEndpoint: the base url, or threw when endpoint.includes is not a function
normalizeApiEndpoint(endpoint) ==
  IF ~Truthy(endpoint) THEN [threw |-> FALSE, url |-> <<"/api">>]
  ELSE IF endpoint.t # "string" THEN [threw |-> TRUE, url |-> <<>>]
  ELSE IF includes(endpoint.s, <<"127.0.0.1">>) \/ includes(endpoint.s, <<"localhost:31009">>)
       THEN [threw |-> FALSE, url |-> <<"/api">>]
       ELSE [threw |-> FALSE, url |-> endpoint.s]

\* variant: any HTTP response counts as reachable
validateAnytypeApiAnyResponse(outcome) == outcome # "network_error"

\* validateAnytypeApi, once its fetch has settled
validateAnytypeApi(outcome) == outcome \in {"ok", "ok_empty", "unauthorized"}

\* the value each client function resolves to once its fetch has settled
\*   createObject / getObject : "object" or "null"
\*   updateObject / deleteObject : "true" or "false"
\*   searchObjects / fetchObjects : "array" (items found) or "empty_array"
ServiceResult(fn, outcome) ==
  CASE fn \in {"createObject", "getObject"} ->
         IF outcome = "ok" THEN "object" ELSE "null"
    [] fn \in {"updateObject", "deleteObject"} ->
         IF outcome \in {"ok", "ok_empty"} THEN "true" ELSE "false"
    [] fn \in {"searchObjects", "fetchObjects"} ->
         IF outcome = "ok" THEN "array" ELSE "empty_array"

HttpMethod(fn) ==
  CASE fn = "createObject" -> "POST"
    [] fn = "updateObject" -> "PUT"
    [] fn = "deleteObject" -> "DELETE"
    [] fn = "searchObjects" -> "POST"
    [] OTHER -> "GET"

\* a request and how its fetch settled ("pending" until it does)
Request(fn, url) == [fn |-> fn, method |-> HttpMethod(fn), url |-> url, outcome |-> "pending"]
Settled(reqs, outcome) == [reqs EXCEPT ![Len(reqs)].outcome = outcome]

MutatingFns == {"createObject", "updateObject", "deleteObject"}
ObjectApiFns == MutatingFns \cup {"searchObjects", "fetchObjects", "getObject"}

\* ------------------------------------------------------------------------
\* services/mcpChatHandler.ts : executeMcpCommand and its helpers
\*   an outcome carries the keys its object literal has
\* ------------------------------------------------------------------------
ExecFailure(msg) == [success |-> FALSE, keys |-> {"success", "error"}, data |-> "none", error |-> msg]
ExecSuccess(data) == [success |-> TRUE, keys |-> {"success", "data"}, data |-> data, error |-> <<>>]
NoOutcome == [success |-> FALSE, keys |-> {}, data |-> "none", error |-> <<>>]

ActionIs(command, a) == command.action.t = "string" /\ command.action.s = <<a>>

\* what a helper does before its request: `call` names the client function to
\* await, or it returns `outcome` at once, or it throws (destructuring of a
\* null or undefined `parameters`)
Plan(fn) == [threw |-> FALSE, call |-> fn, outcome |-> NoOutcome]
Return(outcome) == [threw |-> FALSE, call |-> "none", outcome |-> outcome]
Throw == [threw |-> TRUE, call |-> "none", outcome |-> NoOutcome]

Destructures(command) == command.parameters.t \notin {"undefined", "null"}

executCreateObject(command, spaceId) ==
  IF ~Destructures(command) THEN Throw
  ELSE IF ~Truthy(GetProp(command.parameters, "name"))
          \/ ~Truthy(GetProp(command.parameters, "type_key"))
       THEN Return(ExecFailure(<<"Object name and type are required">>))
       ELSE IF ~Truthy(spaceId)
            THEN Return(ExecFailure(<<"No space selected", ". Please select a space first.">>))
            ELSE Plan("createObject")

\* executeUpdateObject, executeDeleteObject, executeGetObject share this shape
ExecuteWithObjectId(command, spaceId, fn) ==
  IF ~Destructures(command) THEN Throw
  ELSE IF ~Truthy(GetProp(command.parameters, "object_id"))
       THEN Return(ExecFailure(<<"Object ID is required">>))
       ELSE IF ~Truthy(spaceId)
            THEN Return(ExecFailure(<<"No space selected">>))
            ELSE Plan(fn)

executeSearchObjects(command, spaceId) ==
  IF ~Destructures(command) THEN Throw
  ELSE IF ~Truthy(GetProp(command.parameters, "query"))
       THEN Return(ExecFailure(<<"Search query is required">>))
       ELSE IF ~Truthy(spaceId)
            THEN Return(ExecFailure(<<"No space selected">>))
            ELSE Plan("searchObjects")

executeListObjects(command, spaceId) ==
  IF ~Truthy(spaceId)
  THEN Return(ExecFailure(<<"No space selected">>))
  ELSE Plan("fetchObjects")

\* variant: the stub reports success and does nothing
AddRelationSilent == [success |-> TRUE, keys |-> {"success", "data"}, data |-> "relation", error |-> <<>>]

\* case 'ADD_RELATION' of the switch
AddRelationStub ==
  [success |-> FALSE, keys |-> {"success", "error"}, data |-> "none",
   error |-> <<"ADD_RELATION operation is ", "not yet implemented">>]

\* the switch of executeMcpCommand
Dispatch(command, spaceId) ==
  CASE ActionIs(command, "CREATE_OBJECT") -> executCreateObject(command, spaceId)
    [] ActionIs(command, "UPDATE_OBJECT") -> ExecuteWithObjectId(command, spaceId, "updateObject")
    [] ActionIs(command, "DELETE_OBJECT") -> ExecuteWithObjectId(command, spaceId, "deleteObject")
    [] ActionIs(command, "SEARCH_OBJECTS") -> executeSearchObjects(command, spaceId)
    [] ActionIs(command, "LIST_OBJECTS") -> executeListObjects(command, spaceId)
    [] ActionIs(command, "GET_OBJECT") -> ExecuteWithObjectId(command, spaceId, "getObject")
    [] ActionIs(command, "ADD_RELATION") -> Return(AddRelationStub)
    [] OTHER -> Return(ExecFailure(<<"Unknown operation", ": ">> \o ToText(command.action)))

\* what a helper returns once the client function resolved to `value`
HelperResult(fn, value) ==
  CASE fn = "createObject" ->
         IF value = "null" THEN ExecFailure(<<"Failed to create object">>) ELSE ExecSuccess(value)
    [] fn = "updateObject" ->
         IF value = "false" THEN ExecFailure(<<"Failed to update object">>) ELSE ExecSuccess(value)
    [] fn = "deleteObject" ->
         IF value = "false" THEN ExecFailure(<<"Failed to delete object">>)
         ELSE ExecSuccess("deleted_message")
    [] fn = "getObject" ->
         IF value = "null" THEN ExecFailure(<<"Object not found">>) ELSE ExecSuccess(value)
    [] fn = "searchObjects" -> ExecSuccess("search_results")
    [] fn = "fetchObjects" -> ExecSuccess("object_list")

\* a promise rejected with this error message, in place of an outcome
Rejection(errorMessage) ==
  [success |-> FALSE, keys |-> {"rejected"}, data |-> "none", error |-> errorMessage]

\* the catch block of executeMcpCommand
ExecuteCatch(errorMessage) == ExecFailure(errorMessage)

ErrNoEndpoint == <<"Anytype API ", "endpoint is not configured">>
ErrCannotConnect == <<"Cannot connect", " to Anytype API. Please check your configuration.">>
TypeErrorText == <<"TypeError">>

\* ------------------------------------------------------------------------
\* services/mcpChatHandler.ts : the messages processMcpCommand returns
\* ------------------------------------------------------------------------
NoMessage ==
  [role |-> "none", text |-> <<>>, keys |-> {}, mcpCommand |-> NullCommand,
   executionStatus |-> "none", executionError |-> <<>>]

\* variant: the text is returned trimmed
PlainMessageTrimmed(userMessage) ==
  [role |-> "user", text |-> trim(userMessage), keys |-> {}, mcpCommand |-> NullCommand,
   executionStatus |-> "none", executionError |-> <<>>]

PlainMessage(userMessage) ==
  [role |-> "user", text |-> userMessage, keys |-> {}, mcpCommand |-> NullCommand,
   executionStatus |-> "none", executionError |-> <<>>]

TranslationFailedMessage(result) ==
  [role |-> "model", text |-> <<"Command translation failed: ">> \o result.error,
   keys |-> {"isMcpResult", "executionStatus", "executionError"},
   mcpCommand |-> NullCommand,
   executionStatus |-> "failed", executionError |-> result.error]

translatedCommandMessage(cmd) ==
  [role |-> "model", text |-> <<"I understand you want to:", "formatMcpCommand(command)">>,
   keys |-> {"mcpCommand", "isMcpResult", "executionStatus"},
   mcpCommand |-> cmd,
   executionStatus |-> "pending", executionError |-> <<>>]

\* a promise rejected with this error message, in place of a response
ProcessRejection(errorMessage) ==
  [role |-> "rejected", text |-> errorMessage, keys |-> {}, mcpCommand |-> NullCommand,
   executionStatus |-> "none", executionError |-> <<>>]

\* the catch block of processMcpCommand
ProcessCatch(errorMessage) ==
  [role |-> "model", text |-> <<"An unexpected error occurred: ">> \o errorMessage,
   keys |-> {"isMcpResult", "executionStatus", "executionError"},
   mcpCommand |-> NullCommand,
   executionStatus |-> "failed", executionError |-> errorMessage]

\* variant: the outcome is reported in a new message
ExecutedMessageFresh(msg, outcome) ==
  IF ~outcome.success
  THEN [msg EXCEPT !.executionStatus = "failed",
                   !.executionError = outcome.error,
                   !.keys = @ \cup {"executionError"},
                   !.text = <<"Execution failed: ">> \o outcome.error]
  ELSE [msg EXCEPT !.executionStatus = "success",
                   !.text = <<"Operation completed successfully!">>]

\* steps 4-5 of processMcpCommand: the pending message updated in place
ExecutedMessage(msg, outcome) ==
  IF ~outcome.success
  THEN [msg EXCEPT !.executionStatus = "failed",
                   !.executionError = outcome.error,
                   !.keys = @ \cup {"executionError"},
                   !.text = @ \o <<"Execution failed: ">> \o outcome.error]
  ELSE [msg EXCEPT !.executionStatus = "success",
                   !.text = @ \o <<"Operation completed successfully!">>
                              \o (IF outcome.data # "none"
                                  THEN <<"Result:", "formatExecutionResult(data, action)">>
                                  ELSE <<>>)]

\* ------------------------------------------------------------------------
\* Inputs
\* ------------------------------------------------------------------------
Entries == {"processMcpCommand", "translateWithRetry", "executeMcpCommand", "validateMcpCommand",
            "parseAiResponse", "shouldProcessAsMcpCommand"}

MsgBlank == <<" ">>
MsgChat == <<"h", "i">>
MsgCommand == <<"L", "i", "s", "t", " ", "a", "l", "l">>

ConfigOk == [aiProvider |-> <<"gemini">>, apiKey |-> <<"key">>, model |-> <<"m">>]
AiConfigs ==
  {ConfigOk, [ConfigOk EXCEPT !.aiProvider = <<>>], [ConfigOk EXCEPT !.apiKey = <<>>],
   [ConfigOk EXCEPT !.model = <<>>]}

EndpointLocal == Str(<<"http://", "127.0.0.1", ":31009">>)
EndpointRemote == Str(<<"https://anytype.example">>)
Endpoints == {Str(<<>>), EndpointLocal, EndpointRemote, Num(5)}

SpaceIds == {Undefined, Str(<<"space1">>)}

CommandJson(a, parameters) ==
  Obj(<<Prop("action", Str(<<a>>)), Prop("parameters", parameters),
        Prop("description", Str(<<"d">>))>>)

IdParams == Obj(<<Prop("object_id", Str(<<"o", "1">>))>>)

\* reply texts the language model may produce
ReplyCreate ==
  <<Json(CommandJson("CREATE_OBJECT",
      Obj(<<Prop("name", Str(<<"a">>)), Prop("type_key", Str(<<"page">>))>>)))>>
ReplyListFenced == <<Prose, Json(CommandJson("LIST_OBJECTS", Obj(<<>>))), Prose>>
ReplyUpdate ==
  <<Json(CommandJson("UPDATE_OBJECT",
      Obj(<<Prop("object_id", Str(<<"o", "1">>)), Prop("name", Str(<<"n">>))>>)))>>
ReplyDelete == <<Json(CommandJson("DELETE_OBJECT", IdParams))>>
ReplySearch ==
  <<Json(CommandJson("SEARCH_OBJECTS", Obj(<<Prop("query", Str(<<"r", "o", "a", "d">>))>>)))>>
ReplyGet == <<Json(CommandJson("GET_OBJECT", IdParams))>>
ReplyAddRelation ==
  <<Json(CommandJson("ADD_RELATION",
      Obj(<<Prop("source_object_id", Str(<<"o", "1">>)),
            Prop("target_object_id", Str(<<"o", "2">>)),
            Prop("relation_type", Str(<<"link">>))>>)))>>
ReplyProse == <<Prose>>
ReplyMissingParam ==
  <<Json(CommandJson("CREATE_OBJECT", Obj(<<Prop("name", Str(<<"a">>))>>)))>>
ReplyUnknownAction == <<Json(CommandJson("FOO", Obj(<<>>)))>>
ReplyParamsQuota == <<Json(CommandJson("CREATE_OBJECT", Str(<<"quota">>)))>>
ReplyParamsText == <<Json(CommandJson("GET_OBJECT", Str(<<"x">>)))>>
ReplyIdZero == <<Json(CommandJson("DELETE_OBJECT", Obj(<<Prop("object_id", Num(0))>>)))>>

LlmReplies ==
  {ReplyCreate, ReplyListFenced, ReplyUpdate, ReplyDelete, ReplySearch, ReplyGet,
   ReplyAddRelation, ReplyProse, ReplyMissingParam, ReplyUnknownAction,
   ReplyParamsQuota, ReplyParamsText, ReplyIdZero}

ProviderOutcomes == {ProviderReply(r) : r \in LlmReplies} \cup {ProviderError(FALSE)}

\* texts shouldProcessAsMcpCommand is called with directly
TextTaxesCommand ==
  <<"C","r","e","a","t","e"," ","a"," ","n","e","w"," ","p","a","g","e"," ","a","b","o","u","t"," ","t","a","x","e","s">>
TextTaxesQuestion ==
  <<"w","h","a","t"," ","d","o"," ","y","o","u"," ","t","h","i","n","k"," ","a","b","o","u","t"," ","t","a","x","e","s","?">>
ClassifierTexts ==
  {TextTaxesCommand, TextTaxesQuestion,
   <<"L","I","S","T">>,
   <<" ","l","i","s","t">>,
   <<"\t","g","e","t"," ","i","t">>,
   <<"b","r","a","n","d"," ","n","e","w"," ">>,
   <<"b","r","a","n","d"," ","n","e","w"," ","x">>,
   <<"i","s"," ","i","t"," ","n","e","w","?">>,
   <<"p","l","e","a","s","e"," ","l","i","s","t">>,
   <<"p","l","e","a","s","e"," ","L","i","s","t"," ","A","l","l">>,
   <<"t","o"," ","f","i","n","d"," ">>,
   <<"t","o"," ","f","i","n","d"," ","x">>,
   <<"I"," ","c","r","e","a","t","e","d">>,
   <<"r","e","n","e","w">>,
   <<>>,
   <<" ">>}
  \cup {commandKeywords[i] : i \in 1..Len(commandKeywords)}
  \cup {<<"a">> \o commandPhrases[i] \o <<"b">> : i \in 1..Len(commandPhrases)}
  \cup {<<"x">> \o commandKeywords[i] : i \in 1..Len(commandKeywords)}

\* longest reply, in segments, parseAiResponse is called with directly
MaxSegments == 3

\* the second command object of a reply
OtherJson == Json(CommandJson("DELETE_OBJECT", IdParams))

\* an object with neither action nor parameters / without parameters
BareJson == Json(Obj(<<Prop("note", Str(<<"n">>))>>))
ActionOnlyJson == Json(Obj(<<Prop("action", Str(<<"LIST_OBJECTS">>))>>))

Segments ==
  {Space, Prose, Open, Close, Junk, ReplyCreate[1], OtherJson, BareJson, ActionOnlyJson}

\* reply texts parseAiResponse is called with directly
ParserReplies == UNION {[1..n -> Segments] : n \in 0..MaxSegments}

\* a string of n characters
Chars(n) == [i \in 1..n |-> "a"]

Command(a, parameters) ==
  [action |-> Str(<<a>>), parameters |-> parameters, description |-> Str(<<"d">>)]

RequiredOf(a) == COMMAND_VALIDATION_RULES[a].required

\* parameters with every required parameter of action a / with all but the k-th
Complete(a) == Obj([i \in 1..Len(RequiredOf(a)) |-> Prop(RequiredOf(a)[i], Str(<<"v">>))])
Omit(a, k) ==
  Obj([i \in 1..(Len(RequiredOf(a)) - 1) |->
         Prop(RequiredOf(a)[IF i < k THEN i ELSE i + 1], Str(<<"v">>))])
With(parameters, key, value) == Obj(Append(parameters.entries, Prop(key, value)))

\* the lengths around a limit
Around(limit) == {limit - 1, limit, limit + 1}

\* commands validateMcpCommand is called with directly
ValidatorCommands ==
  {Command(a, Complete(a)) : a \in RuleActions}
  \cup UNION {{Command(a, Omit(a, k)) : k \in 1..Len(RequiredOf(a))} : a \in RuleActions}
  \cup {Command(a, With(Complete(a), "icon", v)) :
          a \in {"CREATE_OBJECT", "LIST_OBJECTS"},
          v \in {Str(<<>>), Str(<<" ">>), Num(7), Null}}
  \cup {Command("CREATE_OBJECT", With(With(Obj(<<>>), "name", Str(Chars(n))),
                                      "type_key", Str(<<"page">>))) : n \in Around(256)}
  \cup {Command(a, With(Complete(a), "name", Str(Chars(n)))) :
          a \in {"UPDATE_OBJECT", "DELETE_OBJECT"}, n \in Around(256)}
  \cup {Command(a, With(Complete(a), "body", Str(Chars(n)))) :
          a \in {"CREATE_OBJECT", "UPDATE_OBJECT"}, n \in Around(10000)}
  \cup {Command("SEARCH_OBJECTS", With(Obj(<<>>), "query", Str(Chars(n)))) : n \in Around(1000)}
  \cup {Command(a, Obj(<<>>)) : a \in {"FOO", "create_object", "constructor", "toString"}}
  \cup {Command("GET_OBJECT", Str(<<"x">>)), Command("LIST_OBJECTS", Str(<<"a", "l", "l">>))}

\* commands handed to executeMcpCommand when it is called directly
DirectCommands ==
  {parseAiResponse(r) : r \in {ReplyCreate, ReplyListFenced, ReplyDelete, ReplySearch,
                                ReplyAddRelation, ReplyUnknownAction, ReplyIdZero}}
  \cup {[action |-> Str(<<a>>), parameters |-> Undefined, description |-> Str(<<"d">>)] :
          a \in {"UPDATE_OBJECT", "ADD_RELATION"}}

\* ------------------------------------------------------------------------
\* State
\* ------------------------------------------------------------------------
VARIABLES
  args,               \* the arguments of the call under study (entry names the function)
  pc,                 \* where the call is suspended
  attempt,            \* translateWithRetry: loop variable
  lastError,          \* translateWithRetry: lastError (NoResult is null)
  translationResult,  \* processMcpCommand: translationResult
  calls,              \* callAiWithTimeout: one record per call (provider call, timer, race)
  waits,              \* translateWithRetry: delays of the backoff timers set so far
  parsedCommand,      \* translateToMcpCommand: parsedCommand of the attempt under way
  attempts,           \* results of the translateToMcpCommand calls so far, in order
  command,            \* the command executeMcpCommand was called with
  executionResult,    \* what executeMcpCommand resolved to
  message,            \* processMcpCommand: the message of the response
  requests,           \* Object API requests issued so far, in order
  validationResult,   \* what validateMcpCommand returned when it was called directly
  classification,     \* what shouldProcessAsMcpCommand returned when it was called directly
  localStorage,       \* historyService: the item stored under HISTORY_KEY
  returned,           \* historyService: the list the last call returned
  isAiConfigured,     \* ChatView: provider, key and model are all set
  isLoading,          \* ChatView: isLoading
  chatHistory,        \* ChatView: chatHistory
  activeChatId,       \* ChatView: activeChatId (NullId is null)
  messages,           \* ChatView: messages, the displayed transcript
  cycles,             \* ChatView: the calls of handleSendMessage, with their locals
  now,                \* Date.now()
  appended,           \* the appends to the displayed transcript, in order
  deleted,            \* the ids handleDeleteChat was called with
  settings,           \* SettingsContext: aiProvider, aiApiKey, aiModel
  view,               \* SettingsView is mounted ("open") or not ("closed")
  currentProvider,    \* SettingsView: currentProvider
  currentAiKey,       \* SettingsView: currentAiKey
  selectedModelId,    \* SettingsView: selectedModelId
  validationState,    \* SettingsView: validationState
  availableModels,    \* SettingsView: availableModels
  verifications,      \* SettingsView: the calls of handleVerifyKey, with their locals
  verified,           \* the (provider, key) pairs validateApiKey has found valid
  treeArgs,           \* buildTree: objects, rootId, and the objects the API holds
  objectMap,          \* buildTree: objectMap
  visited,            \* buildTree: visited
  branches,           \* buildTree: branches
  fullObjectCache,    \* buildTree: the keys of fullObjectCache
  frames,             \* buildTree: the calls of buildNode under way, innermost last
  treeData            \* ObjectTree: what buildTree resolved to

vars ==
  <<args, pc, attempt, lastError, translationResult, calls, waits, parsedCommand,
    attempts, command, executionResult, message, requests, validationResult,
    classification, localStorage, returned, isAiConfigured, isLoading,
    chatHistory, activeChatId, messages, cycles, now, appended, deleted,
    settings, view, currentProvider, currentAiKey, selectedModelId,
    validationState, availableModels, verifications, verified,
    treeArgs, objectMap, visited, branches, fullObjectCache, frames, treeData>>

translateVars == <<attempt, lastError, translationResult, waits, parsedCommand, attempts>>
executeVars == <<command, executionResult, message, requests>>
historyVars == <<localStorage, returned>>
chatVars ==
  <<isAiConfigured, isLoading, chatHistory, activeChatId, messages, cycles, now,
    appended, deleted>>
formVars ==
  <<currentProvider, currentAiKey, selectedModelId, validationState, availableModels>>
settingsVars == <<settings, view, formVars, verifications, verified>>
buildVars == <<objectMap, visited, branches, fullObjectCache, frames, treeData>>
treeVars == <<treeArgs, buildVars>>
uiVars == <<historyVars, chatVars, settingsVars, treeVars>>
auxVars == <<validationResult, classification, uiVars>>
pipelineVars ==
  <<args, pc, calls, translateVars, executeVars, validationResult, classification>>

PipelineInit ==
  /\ args \in
       {[entry |-> "processMcpCommand", userMessage |-> m, typeofUserMessage |-> "string", response |-> <<>>,
         ai |-> c, retries |-> MAX_RETRIES,
         anytypeEndpoint |-> e, currentSpaceId |-> sp, command |-> NullCommand] :
          m \in {MsgBlank, MsgChat, MsgCommand}, c \in AiConfigs,
          e \in Endpoints, sp \in SpaceIds}
       \cup
       {[entry |-> "processMcpCommand", userMessage |-> <<>>, typeofUserMessage |-> "undefined", response |-> <<>>,
         ai |-> c, retries |-> MAX_RETRIES,
         anytypeEndpoint |-> e, currentSpaceId |-> sp, command |-> NullCommand] :
          c \in AiConfigs, e \in Endpoints, sp \in SpaceIds}
       \cup
       {[entry |-> "translateWithRetry", userMessage |-> m, typeofUserMessage |-> "string", response |-> <<>>,
         ai |-> c, retries |-> r,
         anytypeEndpoint |-> Str(<<>>), currentSpaceId |-> Undefined,
         command |-> NullCommand] :
          m \in {<<>>, MsgBlank, MsgCommand}, c \in AiConfigs, r \in 0..MaxRetriesArg}
       \cup
       {[entry |-> "parseAiResponse", userMessage |-> <<>>, typeofUserMessage |-> "string",
         response |-> r, ai |-> ConfigOk, retries |-> 0, anytypeEndpoint |-> Str(<<>>),
         currentSpaceId |-> Undefined, command |-> NullCommand] : r \in ParserReplies}
       \cup
       {[entry |-> "shouldProcessAsMcpCommand", userMessage |-> m, typeofUserMessage |-> "string",
         response |-> <<>>, ai |-> ConfigOk, retries |-> 0, anytypeEndpoint |-> Str(<<>>),
         currentSpaceId |-> Undefined, command |-> NullCommand] : m \in ClassifierTexts}
       \cup
       {[entry |-> "validateMcpCommand", userMessage |-> <<>>, typeofUserMessage |-> "string",
         response |-> <<>>,
         ai |-> ConfigOk, retries |-> 0, anytypeEndpoint |-> Str(<<>>),
         currentSpaceId |-> Undefined, command |-> c] : c \in ValidatorCommands}
       \cup
       {[entry |-> "executeMcpCommand", userMessage |-> <<>>, typeofUserMessage |-> "string", response |-> <<>>,
         ai |-> ConfigOk,
         retries |-> 0, anytypeEndpoint |-> e, currentSpaceId |-> sp, command |-> c] :
          c \in DirectCommands, e \in Endpoints, sp \in SpaceIds}
  /\ pc = "start"
  /\ attempt = 0
  /\ lastError = NoResult
  /\ translationResult = NoResult
  /\ calls = <<>>
  /\ waits = <<>>
  /\ parsedCommand = NullCommand
  /\ attempts = <<>>
  /\ command = NullCommand
  /\ executionResult = NoOutcome
  /\ message = NoMessage
  /\ requests = <<>>
  /\ validationResult = NotValidated
  /\ classification = "none"

\* ------------------------------------------------------------------------
\* services/mcpTranslationService.ts : callAiWithTimeout
\* ------------------------------------------------------------------------
PendingRace == [state |-> "pending", value |-> <<>>]

\* variant: the last settlement wins
RaceSettleLast(race, state, value) == [state |-> state, value |-> value]

\* Promise.race: the first settlement wins, later ones are ignored
RaceSettle(race, state, value) ==
  IF race.state = "pending" THEN [state |-> state, value |-> value] ELSE race

\* variant: the provider call is not raced against a timer
NewCallNoTimer(k) ==
  [attempt |-> k, llm |-> "pending", llmThrew |-> FALSE, timer |-> "none", first |-> "none",
   race |-> PendingRace]

NewCall(k) ==
  [attempt |-> k, llm |-> "pending", llmThrew |-> FALSE, timer |-> "armed", first |-> "none",
   race |-> PendingRace]

\* ------------------------------------------------------------------------
\* services/mcpTranslationService.ts : translateWithRetry
\* ------------------------------------------------------------------------
\* `return lastError || {...}`
ReturnLastError(last) ==
  IF last = NoResult THEN TranslationFailure(ErrAllRetries, NullCommand) ELSE last

\* translateToMcpCommand returns `result`; `call` is the callAiWithTimeout
\* call it consumed (0: none was made)
AttemptReturns(result, call) ==
  /\ attempts' = Append(attempts, [result |-> result, call |-> call])
  /\ pc' = "loop"

\* the loop body after `const result = await translateToMcpCommand(...)`
RetryLoop ==
  /\ pc = "loop"
  /\ LET result == attempts[Len(attempts)].result
     IN IF result.success
        THEN /\ translationResult' = result
             /\ pc' = "translated"
             /\ UNCHANGED <<attempt, lastError, waits>>
        ELSE /\ lastError' = result
             /\ IF NoRetry(result)
                THEN /\ translationResult' = ReturnLastError(result)
                     /\ pc' = "translated"
                     /\ UNCHANGED <<attempt, waits>>
                ELSE IF attempt < args.retries
                     THEN /\ waits' = Append(waits, BackoffDelay(attempt))
                          /\ pc' = "backoff"
                          /\ UNCHANGED <<attempt, translationResult>>
                     ELSE /\ attempt' = attempt + 1
                          /\ translationResult' = ReturnLastError(result)
                          /\ pc' = "translated"
                          /\ UNCHANGED waits
  /\ UNCHANGED <<args, auxVars, calls, parsedCommand, attempts>>
  /\ UNCHANGED executeVars

\* translateWithRetry is entered directly
StartTranslate ==
  /\ pc = "start"
  /\ args.entry = "translateWithRetry"
  /\ pc' = "translate"
  /\ UNCHANGED <<args, auxVars, calls>>
  /\ UNCHANGED translateVars
  /\ UNCHANGED executeVars

\* translateToMcpCommand up to its first await: the guards return at once
TranslateGuarded ==
  /\ pc = "translate"
  /\ attempt <= args.retries
  /\ LET g == TranslateGuard(args.userMessage, args.ai.aiProvider, args.ai.apiKey, args.ai.model)
     IN /\ g # NoResult
        /\ AttemptReturns(g, 0)
  /\ UNCHANGED <<args, auxVars, calls, attempt, lastError, translationResult, waits, parsedCommand>>
  /\ UNCHANGED executeVars

\* translateToMcpCommand up to its first await: callAiWithTimeout starts the
\* provider call and the timer
TranslateCall ==
  /\ pc = "translate"
  /\ attempt <= args.retries
  /\ TranslateGuard(args.userMessage, args.ai.aiProvider, args.ai.apiKey, args.ai.model) = NoResult
  /\ calls' = Append(calls, NewCall(attempt))
  /\ pc' = "race"
  /\ UNCHANGED <<args, auxVars>>
  /\ UNCHANGED translateVars
  /\ UNCHANGED executeVars

\* the provider call of call i settles; continueConversation resolves
LlmSettle(i, outcome) ==
  /\ calls[i].llm = "pending"
  /\ calls' = [calls EXCEPT ![i].llm = "settled",
                            ![i].llmThrew = outcome.threw,
                            ![i].first = IF @ = "none" THEN "llm" ELSE @,
                            ![i].race = RaceSettle(@, "fulfilled", continueConversation(outcome))]
  /\ UNCHANGED <<args, auxVars, pc>>
  /\ UNCHANGED translateVars
  /\ UNCHANGED executeVars

\* the timer of call i fires after AI_CALL_TIMEOUT ms
TimerFire(i) ==
  /\ calls[i].timer = "armed"
  /\ calls' = [calls EXCEPT ![i].timer = "fired",
                            ![i].first = IF @ = "none" THEN "timer" ELSE @,
                            ![i].race = RaceSettle(@, "rejected", <<>>)]
  /\ UNCHANGED <<args, auxVars, pc>>
  /\ UNCHANGED translateVars
  /\ UNCHANGED executeVars

\* translateToMcpCommand resumes after `await callAiWithTimeout(...)`: the
\* rejection goes to the catch block, the response is parsed
TranslateResume ==
  /\ pc = "race"
  /\ LET i == Len(calls)
         race == calls[i].race
     IN /\ race.state # "pending"
        /\ IF race.state = "fulfilled"
           THEN /\ parsedCommand' = parseAiResponse(race.value)
                /\ pc' = "parsed"
                /\ UNCHANGED attempts
           ELSE /\ AttemptReturns(TranslateCatch(AiCallTimeout), i)
                /\ UNCHANGED parsedCommand
  /\ UNCHANGED <<args, auxVars, calls, attempt, lastError, translationResult, waits>>
  /\ UNCHANGED executeVars

\* translateToMcpCommand from the null check on parsedCommand to its return
TranslateValidate ==
  /\ pc = "parsed"
  /\ AttemptReturns(TranslateParsed(parsedCommand, calls[Len(calls)].race.value), Len(calls))
  /\ UNCHANGED <<args, auxVars, calls, attempt, lastError, translationResult, waits, parsedCommand>>
  /\ UNCHANGED executeVars

\* the backoff timer fires; the loop goes round
BackoffElapsed ==
  /\ pc = "backoff"
  /\ attempt' = attempt + 1
  /\ pc' = "translate"
  /\ UNCHANGED <<args, auxVars, calls, lastError, translationResult, waits, parsedCommand, attempts>>
  /\ UNCHANGED executeVars

\* translateWithRetry, called directly, has returned
TranslateReturned ==
  /\ pc = "translated"
  /\ args.entry = "translateWithRetry"
  /\ pc' = "done"
  /\ UNCHANGED <<args, auxVars, calls>>
  /\ UNCHANGED translateVars
  /\ UNCHANGED executeVars

\* ------------------------------------------------------------------------
\* services/mcpChatHandler.ts : executeMcpCommand
\* ------------------------------------------------------------------------
\* executeMcpCommand resolves to `outcome`; processMcpCommand (steps 4-5)
\* folds it into the pending message and returns
ExecuteReturn(cmd, outcome) ==
  /\ executionResult' = outcome
  /\ message' = IF args.entry = "processMcpCommand"
                THEN ExecutedMessage(translatedCommandMessage(cmd), outcome)
                ELSE message
  /\ pc' = "done"

\* executeMcpCommand up to its first await
ExecuteBegin(cmd) ==
  /\ command' = cmd
  /\ IF ~Truthy(args.anytypeEndpoint)
     THEN /\ ExecuteReturn(cmd, ExecFailure(ErrNoEndpoint))
          /\ UNCHANGED requests
     ELSE LET n == normalizeApiEndpoint(args.anytypeEndpoint)
          IN IF n.threw
             THEN /\ ExecuteReturn(cmd, ExecuteCatch(TypeErrorText))
                  /\ UNCHANGED requests
             ELSE /\ requests' = Append(requests, Request("validateAnytypeApi", n.url))
                  /\ executionResult' = NoOutcome
                  /\ message' = IF args.entry = "processMcpCommand"
                                THEN translatedCommandMessage(cmd)
                                ELSE message
                  /\ pc' = "probe"

\* executeMcpCommand is entered directly
StartExecute ==
  /\ pc = "start"
  /\ args.entry = "executeMcpCommand"
  /\ ExecuteBegin(args.command)
  /\ UNCHANGED <<args, auxVars, calls>>
  /\ UNCHANGED translateVars

\* the fetch of validateAnytypeApi settles; on success the switch runs up to
\* the await of the client function
ProbeSettle(outcome) ==
  /\ pc = "probe"
  /\ IF ~validateAnytypeApi(outcome)
     THEN /\ ExecuteReturn(command, ExecFailure(ErrCannotConnect))
          /\ requests' = Settled(requests, outcome)
     ELSE LET d == Dispatch(command, args.currentSpaceId)
          IN IF d.threw
             THEN /\ ExecuteReturn(command, ExecuteCatch(TypeErrorText))
                  /\ requests' = Settled(requests, outcome)
             ELSE IF d.call = "none"
                  THEN /\ ExecuteReturn(command, d.outcome)
                       /\ requests' = Settled(requests, outcome)
                  ELSE /\ requests' =
                            Append(Settled(requests, outcome),
                                   Request(d.call, normalizeApiEndpoint(args.anytypeEndpoint).url))
                       /\ pc' = "api"
                       /\ UNCHANGED <<executionResult, message>>
  /\ UNCHANGED <<args, auxVars, calls, command>>
  /\ UNCHANGED translateVars

\* variant: a failed request is issued once more
ApiSettleRetrying(outcome) ==
  /\ pc = "api"
  /\ LET fn == requests[Len(requests)].fn
     IN IF outcome \in {"http_error", "network_error"} /\ Len(requests) < 3
        THEN /\ requests' = Append(Settled(requests, outcome),
                                   Request(fn, requests[Len(requests)].url))
             /\ UNCHANGED <<pc, executionResult, message>>
        ELSE /\ ExecuteReturn(command, HelperResult(fn, ServiceResult(fn, outcome)))
             /\ requests' = Settled(requests, outcome)
  /\ UNCHANGED <<args, auxVars, calls, command>>
  /\ UNCHANGED translateVars

\* the fetch of the client function settles; the helper and executeMcpCommand return
ApiSettle(outcome) ==
  /\ pc = "api"
  /\ LET fn == requests[Len(requests)].fn
     IN ExecuteReturn(command, HelperResult(fn, ServiceResult(fn, outcome)))
  /\ requests' = Settled(requests, outcome)
  /\ UNCHANGED <<args, auxVars, calls, command>>
  /\ UNCHANGED translateVars

\* ------------------------------------------------------------------------
\* services/mcpChatHandler.ts : processMcpCommand
\* ------------------------------------------------------------------------
\* step 1: text that is not a command is returned as it came
ProcessPlain ==
  /\ pc = "start"
  /\ args.entry = "processMcpCommand"
  /\ args.typeofUserMessage = "string"
  /\ ~shouldProcessAsMcpCommand(args.userMessage)
  /\ message' = PlainMessage(args.userMessage)
  /\ pc' = "done"
  /\ UNCHANGED <<args, auxVars, calls, command, executionResult, requests>>
  /\ UNCHANGED translateVars

\* step 1 throws: `message.toLowerCase()` of a userMessage that is not a string
\* at run time is a TypeError, caught by the catch block
ProcessThrows ==
  /\ pc = "start"
  /\ args.entry = "processMcpCommand"
  /\ args.typeofUserMessage # "string"
  /\ message' = ProcessCatch(TypeErrorText)
  /\ pc' = "done"
  /\ UNCHANGED <<args, auxVars, calls, command, executionResult, requests>>
  /\ UNCHANGED translateVars

\* step 2: translateWithRetry is called
ProcessTranslate ==
  /\ pc = "start"
  /\ args.entry = "processMcpCommand"
  /\ args.typeofUserMessage = "string"
  /\ shouldProcessAsMcpCommand(args.userMessage)
  /\ pc' = "translate"
  /\ UNCHANGED <<args, auxVars, calls>>
  /\ UNCHANGED translateVars
  /\ UNCHANGED executeVars

\* variant: executes whenever the result carries a command
ProceedsToExecuteAnyCommand(result) == result.command # NullCommand

\* whether processMcpCommand goes on to execute the translated command
ProceedsToExecute(result) == result.success

\* translation failed: the failure message is returned
ProcessTranslationFailed ==
  /\ pc = "translated"
  /\ args.entry = "processMcpCommand"
  /\ ~ProceedsToExecute(translationResult)
  /\ message' = TranslationFailedMessage(translationResult)
  /\ pc' = "done"
  /\ UNCHANGED <<args, auxVars, calls, command, executionResult, requests>>
  /\ UNCHANGED translateVars

\* steps 3-4: the pending message is built and executeMcpCommand is called
ProcessExecute ==
  /\ pc = "translated"
  /\ args.entry = "processMcpCommand"
  /\ ProceedsToExecute(translationResult)
  /\ ExecuteBegin(translationResult.command)
  /\ UNCHANGED <<args, auxVars, calls>>
  /\ UNCHANGED translateVars

\* ------------------------------------------------------------------------
\* services/mcpTranslationService.ts : validateMcpCommand, called directly
\* ------------------------------------------------------------------------
Validate ==
  /\ pc = "start"
  /\ args.entry = "validateMcpCommand"
  /\ validationResult' = validateMcpCommand(args.command)
  /\ pc' = "done"
  /\ UNCHANGED <<args, classification, uiVars, calls>>
  /\ UNCHANGED translateVars
  /\ UNCHANGED executeVars

\* ------------------------------------------------------------------------
\* services/mcpTranslationService.ts : parseAiResponse, called directly
\* ------------------------------------------------------------------------
Parse ==
  /\ pc = "start"
  /\ args.entry = "parseAiResponse"
  /\ parsedCommand' = parseAiResponse(args.response)
  /\ pc' = "done"
  /\ UNCHANGED <<args, auxVars, calls, attempt, lastError, translationResult, waits, attempts>>
  /\ UNCHANGED executeVars

\* ------------------------------------------------------------------------
\* services/mcpChatHandler.ts : shouldProcessAsMcpCommand, called directly
\* ------------------------------------------------------------------------
Classify ==
  /\ pc = "start"
  /\ args.entry = "shouldProcessAsMcpCommand"
  /\ classification' = IF shouldProcessAsMcpCommand(args.userMessage) THEN "true" ELSE "false"
  /\ pc' = "done"
  /\ UNCHANGED <<args, validationResult, uiVars, calls>>
  /\ UNCHANGED translateVars
  /\ UNCHANGED executeVars

\* ------------------------------------------------------------------------
\* services/historyService.ts : getHistory, saveChat, deleteChat
\* ------------------------------------------------------------------------
\* Date.now() of the first event, and the most chats one run creates
Epoch == 10
MaxChats == 3

DigitChars == <<"0", "1", "2", "3", "4", "5", "6", "7", "8", "9">>
Rank(c) == CHOOSE i \in 1..Len(DigitChars) : DigitChars[i] = c

\* Number.prototype.toString: the decimal digits of n
RECURSIVE toString(_)
toString(n) ==
  IF n < 10 THEN <<DigitChars[n + 1]>>
  ELSE toString(n \div 10) \o <<DigitChars[(n % 10) + 1]>>

\* String.prototype.localeCompare on strings of digits: -1, 0 or 1
RECURSIVE localeCompare(_, _)
localeCompare(a, b) ==
  IF a = <<>> /\ b = <<>> THEN 0
  ELSE IF a = <<>> THEN -1
  ELSE IF b = <<>> THEN 1
  ELSE IF Rank(Head(a)) < Rank(Head(b)) THEN -1
  ELSE IF Rank(Head(a)) > Rank(Head(b)) THEN 1
  ELSE localeCompare(Tail(a), Tail(b))

\* Array.prototype.sort with (a, b) => b.id.localeCompare(a.id); the sort
\* is stable
RECURSIVE InsertNewestFirst(_, _)
InsertNewestFirst(chat, sorted) ==
  IF sorted = <<>> THEN <<chat>>
  ELSE IF localeCompare(Head(sorted).id, chat.id) < 0
       THEN <<chat>> \o sorted
       ELSE <<Head(sorted)>> \o InsertNewestFirst(chat, Tail(sorted))

RECURSIVE sortNewestFirst(_)
sortNewestFirst(list) ==
  IF list = <<>> THEN <<>>
  ELSE InsertNewestFirst(list[Len(list)], sortNewestFirst(SubSeq(list, 1, Len(list) - 1)))

\* localStorage.getItem gives null when nothing was stored
NoItem == [present |-> FALSE, json |-> <<>>]
JsonStringify(list) == [present |-> TRUE, json |-> list]
JsonParse(item) == item.json

getHistory(storage) ==
  IF storage.present THEN sortNewestFirst(JsonParse(storage)) ELSE <<>>

findIndex(list, id) ==
  IF \E i \in 1..Len(list) : list[i].id = id
  THEN CHOOSE i \in 1..Len(list) :
         /\ list[i].id = id
         /\ \A j \in 1..(i - 1) : list[j].id # id
  ELSE 0

\* history after the update or the unshift of saveChat
Upserted(history, chatToSave) ==
  IF findIndex(history, chatToSave.id) > 0
  THEN [history EXCEPT ![findIndex(history, chatToSave.id)] = chatToSave]
  ELSE <<chatToSave>> \o history

\* variant: the list is stored as it is after the unshift
saveChatUnsorted(storage, chatToSave, stored) ==
  LET history == Upserted(getHistory(storage), chatToSave)
  IN [returned |-> history,
      storage |-> IF stored THEN JsonStringify(history) ELSE storage]

\* `stored` is false when localStorage.setItem throws
saveChat(storage, chatToSave, stored) ==
  LET sortedHistory == sortNewestFirst(Upserted(getHistory(storage), chatToSave))
  IN [returned |-> sortedHistory,
      storage |-> IF stored THEN JsonStringify(sortedHistory) ELSE storage]

filterOut(list, chatId) == SelectSeq(list, LAMBDA chat : chat.id # chatId)

deleteChat(storage, chatId, stored) ==
  LET history == filterOut(getHistory(storage), chatId)
  IN [returned |-> history,
      storage |-> IF stored THEN JsonStringify(history) ELSE storage]

\* ids and chats the history functions are called with directly
ChatTimes == Epoch..(Epoch + MaxChats - 1)
FirstMessage == [id |-> toString(Epoch), role |-> "user", text |-> <<"h", "i">>]
HistoryChats ==
  {[id |-> toString(t), title |-> <<"New Chat">>, messages |-> ms] :
     t \in ChatTimes, ms \in {<<>>, <<FirstMessage>>}}

HistoryIdle ==
  /\ localStorage = NoItem
  /\ returned = <<>>

SaveChat(chatToSave, stored) ==
  /\ returned' = saveChat(localStorage, chatToSave, stored).returned
  /\ localStorage' = saveChat(localStorage, chatToSave, stored).storage

DeleteChat(chatId, stored) ==
  /\ returned' = deleteChat(localStorage, chatId, stored).returned
  /\ localStorage' = deleteChat(localStorage, chatId, stored).storage

\* ------------------------------------------------------------------------
\* components/ChatView.tsx : ChatView
\* ------------------------------------------------------------------------
\* most calls of handleSendMessage in one run
MaxSends == 2

NullId == <<>>
NoChat == [id |-> NullId, title |-> <<>>, messages |-> <<>>]

\* a chat of an earlier session
FirstReply == [id |-> toString(Epoch + 1), role |-> "model", text |-> <<Prose>>]
OldChat ==
  [id |-> toString(Epoch), title |-> <<"New Chat">>, messages |-> <<FirstMessage, FirstReply>>]

SendTexts == {MsgBlank, MsgChat}
ChatOutcomes ==
  {ProviderReply(<<Space, Prose, Space>>), ProviderReply(<<Space>>), ProviderError(FALSE)}

\* String.prototype.trim on a reply
InkAt(response) == {i \in 1..Len(response) : response[i] # Space}
trimReply(response) ==
  IF InkAt(response) = {} THEN <<>>
  ELSE SubSeq(response,
              CHOOSE i \in InkAt(response) : \A j \in InkAt(response) : i <= j,
              CHOOSE i \in InkAt(response) : \A j \in InkAt(response) : i >= j)

\* aiService.ts : generateChatTitle (the replies hold no quotes)
generateChatTitle(outcome) == trimReply(continueConversation(outcome))

\* the effect on activeChatId: the messages of the chat as persisted
ShownFor(chatId, storage) ==
  IF chatId # NullId /\ findIndex(getHistory(storage), chatId) > 0
  THEN getHistory(storage)[findIndex(getHistory(storage), chatId)].messages
  ELSE <<>>

\* variant: a submission is accepted while another is being processed
SendGuardNotLoading(messageText) ==
  ~(trim(messageText) = <<>> \/ ~isAiConfigured)

\* line 121: if (!messageText.trim() || isLoading || !isAiConfigured) return
SendGuard(messageText) ==
  ~(trim(messageText) = <<>> \/ isLoading \/ ~isAiConfigured)

ChatIdle ==
  /\ isAiConfigured = FALSE
  /\ isLoading = FALSE
  /\ chatHistory = <<>>
  /\ activeChatId = NullId
  /\ messages = <<>>
  /\ cycles = <<>>
  /\ now = Epoch
  /\ appended = <<>>
  /\ deleted = {}

\* handleSendMessage up to its first await
HandleSendMessage(messageText) ==
  /\ Len(cycles) < MaxSends
  /\ SendGuard(messageText)
  /\ LET userMessage == [id |-> toString(now), role |-> "user", text |-> messageText]
         locals == [pc |-> "title", userMessage |-> userMessage,
                    conversationHistoryForAPI |-> messages, chatToSave |-> NoChat]
     IN /\ messages' = Append(messages, userMessage)
        /\ appended' = Append(appended, [n |-> Len(cycles) + 1, role |-> "user"])
        /\ isLoading' = TRUE
        /\ now' = now + 1
        /\ IF activeChatId = NullId
           THEN /\ cycles' = Append(cycles, locals)
                /\ UNCHANGED <<chatHistory, localStorage>>
           ELSE IF findIndex(chatHistory, activeChatId) = 0
                THEN /\ cycles' = Append(cycles, [locals EXCEPT !.pc = "rejected"])
                     /\ UNCHANGED <<chatHistory, localStorage>>
                ELSE LET existingChat == chatHistory[findIndex(chatHistory, activeChatId)]
                         chatToSave ==
                           [existingChat EXCEPT !.messages = Append(@, userMessage)]
                         saved == saveChat(localStorage, chatToSave, TRUE)
                     IN /\ cycles' = Append(cycles, [locals EXCEPT !.pc = "reply",
                                                                    !.chatToSave = chatToSave])
                        /\ localStorage' = saved.storage
                        /\ chatHistory' = saved.returned
  /\ UNCHANGED <<isAiConfigured, activeChatId, deleted, returned>>

\* generateChatTitle settles: the new chat is saved and made the active one
TitleSettle(i, outcome) ==
  /\ cycles[i].pc = "title"
  /\ LET title == generateChatTitle(outcome)
         newChat == [id |-> toString(now),
                     title |-> IF title = <<>> THEN <<"New Conversation">> ELSE title,
                     messages |-> Append(cycles[i].conversationHistoryForAPI,
                                         cycles[i].userMessage)]
         saved == saveChat(localStorage, newChat, TRUE)
     IN /\ localStorage' = saved.storage
        /\ chatHistory' = saved.returned
        /\ activeChatId' = newChat.id
        /\ messages' = ShownFor(newChat.id, saved.storage)
        /\ cycles' = [cycles EXCEPT ![i].pc = "reply", ![i].chatToSave = newChat]
  /\ now' = now + 1
  /\ UNCHANGED <<isAiConfigured, isLoading, appended, deleted, returned>>

\* continueConversation settles: the reply is displayed and saved
ReplySettle(i, outcome) ==
  /\ cycles[i].pc = "reply"
  /\ LET modelMessage == [id |-> toString(now + 1), role |-> "model",
                          text |-> continueConversation(outcome)]
         chatToSave == [cycles[i].chatToSave EXCEPT !.messages = Append(@, modelMessage)]
         saved == saveChat(localStorage, chatToSave, TRUE)
     IN /\ messages' = Append(messages, modelMessage)
        /\ appended' = Append(appended, [n |-> i, role |-> "model"])
        /\ localStorage' = saved.storage
        /\ chatHistory' = saved.returned
        /\ cycles' = [cycles EXCEPT ![i].pc = "done", ![i].chatToSave = chatToSave]
  /\ isLoading' = FALSE
  /\ now' = now + 2
  /\ UNCHANGED <<isAiConfigured, activeChatId, deleted, returned>>

HandleNewChat ==
  /\ activeChatId' = NullId
  /\ messages' = IF activeChatId = NullId THEN messages ELSE <<>>
  /\ UNCHANGED <<isAiConfigured, isLoading, chatHistory, cycles, now, appended, deleted>>
  /\ UNCHANGED historyVars

HandleSelectChat(chatId) ==
  /\ findIndex(chatHistory, chatId) > 0
  /\ activeChatId' = chatId
  /\ messages' = IF activeChatId = chatId THEN messages ELSE ShownFor(chatId, localStorage)
  /\ UNCHANGED <<isAiConfigured, isLoading, chatHistory, cycles, now, appended, deleted>>
  /\ UNCHANGED historyVars

HandleDeleteChat(chatId) ==
  /\ findIndex(chatHistory, chatId) > 0
  /\ localStorage' = deleteChat(localStorage, chatId, TRUE).storage
  /\ chatHistory' = deleteChat(localStorage, chatId, TRUE).returned
  /\ deleted' = deleted \cup {chatId}
  /\ IF activeChatId = chatId
     THEN /\ activeChatId' = NullId
          /\ messages' = <<>>
     ELSE UNCHANGED <<activeChatId, messages>>
  /\ UNCHANGED <<isAiConfigured, isLoading, cycles, now, appended, returned>>

\* ------------------------------------------------------------------------
\* components/SettingsPanel.tsx : SettingsView
\* ------------------------------------------------------------------------
\* most calls of handleVerifyKey while the view is mounted
MaxVerifications == 2

Providers == {"gemini", "openai"}
KeyGood == <<"g">>
KeyBad == <<"b">>
KeyTexts == {<<>>, KeyGood, KeyBad}

\* what the provider answers to a request made with the key
KeyIsValid(provider, key) == provider = "gemini" /\ key = KeyGood

\* aiService.ts : listModels; `ok` is false when the fetch of the list fails
GEMINI_MODELS == <<"gemini-2.5-flash", "gemini-2.5-pro">>
listModels(provider, ok) ==
  IF provider = "gemini" THEN GEMINI_MODELS
  ELSE IF ok THEN <<"gpt-4o">> ELSE <<>>

NoSettings == [aiProvider |-> "", aiApiKey |-> <<>>, aiModel |-> ""]
StoredSettings == [aiProvider |-> "gemini", aiApiKey |-> KeyGood, aiModel |-> "gemini-2.5-pro"]

Verification(provider, key, silent) ==
  [provider |-> provider, key |-> key, silent |-> silent, pc |-> "validate",
   selectedModelId |-> selectedModelId]

SettingsIdle ==
  /\ settings = NoSettings
  /\ view = "closed"
  /\ currentProvider = "gemini"
  /\ currentAiKey = <<>>
  /\ selectedModelId = ""
  /\ validationState = "idle"
  /\ availableModels = <<>>
  /\ verifications = <<>>
  /\ verified = {}

\* the view is mounted: the form is filled from the context and the effect
\* of lines 156-164 runs
Mount ==
  /\ view = "closed"
  /\ view' = "open"
  /\ currentProvider' = IF settings.aiProvider = "" THEN "gemini" ELSE settings.aiProvider
  /\ currentAiKey' = settings.aiApiKey
  /\ selectedModelId' = settings.aiModel
  /\ availableModels' = <<>>
  /\ IF settings.aiApiKey # <<>> /\ settings.aiProvider # ""
     THEN /\ validationState' = "valid"
          /\ verifications' =
               IF trim(settings.aiApiKey) = <<>> THEN <<>>
               ELSE <<[Verification(settings.aiProvider, settings.aiApiKey, TRUE)
                         EXCEPT !.selectedModelId = settings.aiModel]>>
     ELSE /\ validationState' = "idle"
          /\ verifications' = <<>>
  /\ UNCHANGED <<settings, verified>>

HandleProviderChange(provider) ==
  /\ view = "open"
  /\ currentProvider' = provider
  /\ currentAiKey' = <<>>
  /\ selectedModelId' = ""
  /\ validationState' = "idle"
  /\ availableModels' = <<>>
  /\ UNCHANGED <<settings, view, verifications, verified>>

\* onChange of the key input (line 263)
HandleKeyChange(key) ==
  /\ view = "open"
  /\ key # currentAiKey
  /\ currentAiKey' = key
  /\ validationState' = "idle"
  /\ UNCHANGED <<settings, view, currentProvider, selectedModelId, availableModels,
                 verifications, verified>>

\* onChange of the model select (line 275)
HandleModelChange(modelId) ==
  /\ view = "open"
  /\ validationState = "valid"
  /\ \E k \in 1..Len(availableModels) : availableModels[k] = modelId
  /\ selectedModelId' = modelId
  /\ UNCHANGED <<settings, view, currentProvider, currentAiKey, validationState,
                 availableModels, verifications, verified>>

\* the Verify button: handleVerifyKey(currentProvider, currentAiKey) up to
\* its first await
HandleVerifyKey ==
  /\ view = "open"
  /\ currentAiKey # <<>>
  /\ validationState # "validating"
  /\ trim(currentAiKey) # <<>>
  /\ Len(verifications) < MaxVerifications
  /\ validationState' = "validating"
  /\ verifications' = Append(verifications, Verification(currentProvider, currentAiKey, FALSE))
  /\ UNCHANGED <<settings, view, currentProvider, currentAiKey, selectedModelId,
                 availableModels, verified>>

\* validateApiKey settles; it gives false for a key the provider turns
\* down and when the request fails
ValidateSettle(i, isValid) ==
  /\ view = "open"
  /\ verifications[i].pc = "validate"
  /\ isValid => KeyIsValid(verifications[i].provider, verifications[i].key)
  /\ IF isValid
     THEN /\ validationState' = "valid"
          /\ verifications' = [verifications EXCEPT ![i].pc = "models"]
          /\ verified' = verified \cup {<<verifications[i].provider, verifications[i].key>>}
          /\ UNCHANGED availableModels
     ELSE /\ validationState' = "invalid"
          /\ availableModels' = <<>>
          /\ verifications' = [verifications EXCEPT ![i].pc = "done"]
          /\ UNCHANGED verified
  /\ UNCHANGED <<settings, view, currentProvider, currentAiKey, selectedModelId>>

\* listModels settles
ModelsSettle(i, ok) ==
  /\ view = "open"
  /\ verifications[i].pc = "models"
  /\ LET models == listModels(verifications[i].provider, ok)
     IN /\ availableModels' = models
        /\ selectedModelId' =
             IF models # <<>>
                /\ \A k \in 1..Len(models) : models[k] # verifications[i].selectedModelId
             THEN models[1]
             ELSE selectedModelId
  /\ verifications' = [verifications EXCEPT ![i].pc = "done"]
  /\ UNCHANGED <<settings, view, currentProvider, currentAiKey, validationState, verified>>

\* the view is left: what its pending calls set afterwards is not seen
Unmounted ==
  /\ view' = "closed"
  /\ verifications' = <<>>
  /\ UNCHANGED <<formVars, verified>>

HandleSaveChanges ==
  /\ view = "open"
  /\ settings' = IF validationState = "valid" \/ currentAiKey = <<>>
                 THEN [aiProvider |-> currentProvider, aiApiKey |-> currentAiKey,
                       aiModel |-> selectedModelId]
                 ELSE settings
  /\ Unmounted

HandleBack ==
  /\ view = "open"
  /\ UNCHANGED settings
  /\ Unmounted

HandleReset ==
  /\ view = "open"
  /\ settings' = NoSettings
  /\ Unmounted

\* ------------------------------------------------------------------------
\* components/ObjectTree.tsx : buildTree
\* ------------------------------------------------------------------------
TreeIds == {"a", "b", "c"}
Dangling == "x"
AllIds == TreeIds \cup {Dangling, ""}

\* the values of a links or children field
LinkLists == {<<>>, <<"a">>, <<"b", "c">>, <<"c", Dangling>>, <<"", "b">>}

AnyObject(id, links, children) ==
  [present |-> TRUE, id |-> id, links |-> links, children |-> children]
NoObject == [present |-> FALSE, id |-> "", links |-> <<>>, children |-> <<>>]

\* the object graphs the API holds: every object of TreeIds, none for Dangling
Servers ==
  {[id \in AllIds |->
      IF id \in TreeIds
      THEN AnyObject(id, links[id], IF id = "a" THEN embedded ELSE <<>>)
      ELSE NoObject] :
     links \in [TreeIds -> LinkLists], embedded \in {<<>>, <<"c">>}}

\* the list of useObjects: some of the objects, with or without their relations
Listed(server, ids, full) ==
  [id \in AllIds |->
     IF id \in ids
     THEN IF full THEN server[id] ELSE AnyObject(id, <<>>, <<>>)
     ELSE NoObject]

TreeInputs ==
  {[server |-> server, objects |-> Listed(server, ids, full), rootId |-> rootId] :
     server \in Servers, ids \in {{"a"}, {"b"}, TreeIds}, full \in BOOLEAN,
     rootId \in {"a", Dangling}}

NoNode == [null |-> TRUE, id |-> "", children |-> <<>>, depth |-> 0,
           isExpanded |-> FALSE, numChildren |-> 0]

\* a call buildNode(objectId, depth, branch)
Frame(objectId, depth, branch) ==
  [pc |-> "enter", objectId |-> objectId, depth |-> depth, branch |-> branch,
   obj |-> NoObject, validLinks |-> <<>>, numChildren |-> 0, children |-> <<>>]

\* the ids of a Set filled from a list, in insertion order
RECURSIVE Distinct(_)
Distinct(ids) ==
  IF ids = <<>> THEN <<>>
  ELSE LET init == Distinct(SubSeq(ids, 1, Len(ids) - 1))
           last == ids[Len(ids)]
       IN IF \E k \in 1..Len(init) : init[k] = last THEN init ELSE Append(init, last)

\* allRelationIds: the links, then the children; falsy entries are left out
allRelationIds(obj) ==
  Distinct(SelectSeq(obj.links \o obj.children, LAMBDA linkId : linkId # ""))

hasRelations(obj) == Len(obj.links) > 0 \/ Len(obj.children) > 0

\* variant: only the depth stops the descent
SkipTooDeep(objectId, depth) == depth > 15

\* line 107: if (visited.has(objectId) || depth > 15) return null
Skip(objectId, depth) == objectId \in visited \/ depth > 15

\* buildNode returns `node` (NoNode is null): the caller pushes it to its
\* children, or buildTree resolves
Returns(node) ==
  IF Len(frames) = 1
  THEN /\ frames' = <<>>
       /\ treeData' = [state |-> "built", tree |-> IF node.null THEN <<>> ELSE <<node>>]
  ELSE /\ frames' =
            [SubSeq(frames, 1, Len(frames) - 1) EXCEPT
               ![Len(frames) - 1].children = IF node.null THEN @ ELSE Append(@, node),
               ![Len(frames) - 1].validLinks = Tail(@)]
       /\ UNCHANGED treeData

\* getFullObject returned obj: the relations are collected and filtered
Collected(obj) ==
  LET top == frames[Len(frames)]
      all == allRelationIds(obj)
      validLinks == SelectSeq(all, LAMBDA linkId : Append(top.branch, linkId) \notin branches)
  IN /\ frames' = [frames EXCEPT ![Len(frames)] =
                      [top EXCEPT !.pc = "expand", !.obj = obj,
                                  !.validLinks = IF top.depth < 2 THEN validLinks ELSE <<>>,
                                  !.numChildren = Len(validLinks)]]
     /\ branches' = branches \cup {Append(top.branch, all[k]) : k \in 1..Len(all)}
     /\ fullObjectCache' = fullObjectCache \cup {top.objectId}

TreeIdle ==
  /\ treeArgs = [server |-> [id \in AllIds |-> NoObject],
                 objects |-> [id \in AllIds |-> NoObject], rootId |-> ""]
  /\ objectMap = [id \in AllIds |-> NoObject]
  /\ visited = {}
  /\ branches = {}
  /\ fullObjectCache = {}
  /\ frames = <<>>
  /\ treeData = [state |-> "idle", tree |-> <<>>]

\* the effect of lines 190-209 calls buildTree(objects, rootObjectId)
BuildTree ==
  /\ treeData.state = "idle"
  /\ \E id \in AllIds : treeArgs.objects[id].present
  /\ objectMap' = treeArgs.objects
  /\ visited' = {}
  /\ branches' = {}
  /\ fullObjectCache' = {}
  /\ frames' = <<Frame(treeArgs.rootId, 0, <<>>)>>
  /\ treeData' = [state |-> "building", tree |-> <<>>]
  /\ UNCHANGED treeArgs

\* buildNode up to its first await, or to its return
EnterNode ==
  /\ frames # <<>>
  /\ frames[Len(frames)].pc = "enter"
  /\ LET top == frames[Len(frames)]
     IN IF Skip(top.objectId, top.depth)
        THEN /\ Returns(NoNode)
             /\ UNCHANGED <<objectMap, visited, branches, fullObjectCache>>
        ELSE /\ visited' = visited \cup {top.objectId}
             /\ UNCHANGED <<objectMap, treeData>>
             /\ IF ~objectMap[top.objectId].present
                THEN /\ frames' = [frames EXCEPT ![Len(frames)].pc = "fetch"]
                     /\ UNCHANGED <<branches, fullObjectCache>>
                ELSE IF ~hasRelations(objectMap[top.objectId])
                     THEN /\ frames' = [frames EXCEPT ![Len(frames)].pc = "full",
                                                       ![Len(frames)].obj =
                                                          objectMap[top.objectId]]
                          /\ UNCHANGED <<branches, fullObjectCache>>
                     ELSE Collected(objectMap[top.objectId])
  /\ UNCHANGED treeArgs

\* the getObject of an object that is not in the list settles; `answered`
\* is false when the request fails
FetchSettle(answered) ==
  /\ frames # <<>>
  /\ frames[Len(frames)].pc = "fetch"
  /\ LET top == frames[Len(frames)]
         obj == IF answered THEN treeArgs.server[top.objectId] ELSE NoObject
     IN IF ~obj.present
        THEN /\ Returns(NoNode)
             /\ UNCHANGED <<objectMap, branches, fullObjectCache>>
        ELSE /\ objectMap' = [objectMap EXCEPT ![top.objectId] = obj]
             /\ UNCHANGED treeData
             /\ IF ~hasRelations(obj)
                THEN /\ frames' = [frames EXCEPT ![Len(frames)].pc = "full",
                                                  ![Len(frames)].obj = obj]
                     /\ UNCHANGED <<branches, fullObjectCache>>
                ELSE Collected(obj)
  /\ UNCHANGED <<treeArgs, visited>>

\* the getObject for the full details settles
FullSettle(answered) ==
  /\ frames # <<>>
  /\ frames[Len(frames)].pc = "full"
  /\ LET top == frames[Len(frames)]
         fullObj == IF answered THEN treeArgs.server[top.objectId] ELSE NoObject
     IN IF fullObj.present
        THEN /\ objectMap' = [objectMap EXCEPT ![top.objectId] = fullObj]
             /\ Collected(fullObj)
        ELSE /\ UNCHANGED objectMap
             /\ Collected(top.obj)
  /\ UNCHANGED <<treeArgs, visited, treeData>>

\* the loop over validLinks: the next child is built, or the node is returned
ExpandNode ==
  /\ frames # <<>>
  /\ frames[Len(frames)].pc = "expand"
  /\ LET top == frames[Len(frames)]
     IN IF top.validLinks # <<>>
        THEN /\ frames' = Append(frames, Frame(Head(top.validLinks), top.depth + 1,
                                               Append(top.branch, top.objectId)))
             /\ UNCHANGED treeData
        ELSE Returns([null |-> FALSE, id |-> top.obj.id, children |-> top.children,
                      depth |-> top.depth, isExpanded |-> top.depth < 2,
                      numChildren |-> top.numChildren])
  /\ UNCHANGED <<treeArgs, objectMap, visited, branches, fullObjectCache>>

\* ------------------------------------------------------------------------
\* the calls of no entry are under way
PipelineIdle ==
  /\ args = [entry |-> "none", userMessage |-> <<>>, typeofUserMessage |-> "string",
             response |-> <<>>, ai |-> ConfigOk, retries |-> 0,
             anytypeEndpoint |-> Str(<<>>), currentSpaceId |-> Undefined,
             command |-> NullCommand]
  /\ pc = "done"
  /\ attempt = 0
  /\ lastError = NoResult
  /\ translationResult = NoResult
  /\ calls = <<>>
  /\ waits = <<>>
  /\ parsedCommand = NullCommand
  /\ attempts = <<>>
  /\ command = NullCommand
  /\ executionResult = NoOutcome
  /\ message = NoMessage
  /\ requests = <<>>
  /\ validationResult = NotValidated
  /\ classification = "none"

Init ==
  /\ PipelineInit
  /\ HistoryIdle
  /\ ChatIdle
  /\ SettingsIdle
  /\ TreeIdle

Next ==
  \/ StartTranslate
  \/ TranslateGuarded
  \/ TranslateCall
  \/ \E i \in 1..Len(calls), o \in ProviderOutcomes : LlmSettle(i, o)
  \/ \E i \in 1..Len(calls) : TimerFire(i)
  \/ TranslateResume
  \/ TranslateValidate
  \/ RetryLoop
  \/ BackoffElapsed
  \/ TranslateReturned
  \/ StartExecute
  \/ \E o \in FetchOutcomes : ProbeSettle(o)
  \/ \E o \in FetchOutcomes : ApiSettle(o)
  \/ ProcessPlain
  \/ ProcessThrows
  \/ ProcessTranslate
  \/ ProcessTranslationFailed
  \/ ProcessExecute
  \/ Validate
  \/ Parse
  \/ Classify

Spec == Init /\ [][Next]_vars

\* the history functions called in any order
HistoryInit ==
  /\ PipelineIdle
  /\ HistoryIdle
  /\ ChatIdle
  /\ SettingsIdle
  /\ TreeIdle

HistoryNext ==
  \/ \E chat \in HistoryChats, stored \in BOOLEAN :
       SaveChat(chat, stored) /\ UNCHANGED <<pipelineVars, chatVars, settingsVars, treeVars>>
  \/ \E t \in ChatTimes, stored \in BOOLEAN :
       DeleteChat(toString(t), stored) /\ UNCHANGED <<pipelineVars, chatVars, settingsVars, treeVars>>

HistorySpec == HistoryInit /\ [][HistoryNext]_vars

\* a chat session: the handlers of ChatView in any order; setItem succeeds
ChatInit ==
  /\ PipelineIdle
  /\ localStorage \in {NoItem, JsonStringify(<<OldChat>>)}
  /\ returned = <<>>
  /\ isAiConfigured \in BOOLEAN
  /\ isLoading = FALSE
  /\ chatHistory = getHistory(localStorage)
  /\ activeChatId = NullId
  /\ messages = <<>>
  /\ cycles = <<>>
  /\ now = Epoch + 2
  /\ appended = <<>>
  /\ deleted = {}
  /\ SettingsIdle
  /\ TreeIdle

ChatNext ==
  \/ \E messageText \in SendTexts : HandleSendMessage(messageText) /\ UNCHANGED <<pipelineVars, settingsVars, treeVars>>
  \/ \E i \in 1..Len(cycles), outcome \in ChatOutcomes :
       TitleSettle(i, outcome) /\ UNCHANGED <<pipelineVars, settingsVars, treeVars>>
  \/ \E i \in 1..Len(cycles), outcome \in ChatOutcomes :
       ReplySettle(i, outcome) /\ UNCHANGED <<pipelineVars, settingsVars, treeVars>>
  \/ HandleNewChat /\ UNCHANGED <<pipelineVars, settingsVars, treeVars>>
  \/ \E t \in Epoch..now : HandleSelectChat(toString(t)) /\ UNCHANGED <<pipelineVars, settingsVars, treeVars>>
  \/ \E t \in Epoch..now : HandleDeleteChat(toString(t)) /\ UNCHANGED <<pipelineVars, settingsVars, treeVars>>

ChatSpec == ChatInit /\ [][ChatNext]_vars

\* the settings view: its handlers in any order
otherVars == <<pipelineVars, historyVars, chatVars, treeVars>>

SettingsInit ==
  /\ PipelineIdle
  /\ HistoryIdle
  /\ ChatIdle
  /\ settings \in {NoSettings, StoredSettings}
  /\ view = "closed"
  /\ currentProvider = "gemini"
  /\ currentAiKey = <<>>
  /\ selectedModelId = ""
  /\ validationState = "idle"
  /\ availableModels = <<>>
  /\ verifications = <<>>
  /\ verified = IF settings = NoSettings THEN {}
                ELSE {<<settings.aiProvider, settings.aiApiKey>>}
  /\ TreeIdle

SettingsNext ==
  \/ Mount /\ UNCHANGED otherVars
  \/ \E provider \in Providers : HandleProviderChange(provider) /\ UNCHANGED otherVars
  \/ \E key \in KeyTexts : HandleKeyChange(key) /\ UNCHANGED otherVars
  \/ \E modelId \in {"gemini-2.5-flash", "gemini-2.5-pro", "gpt-4o"} :
       HandleModelChange(modelId) /\ UNCHANGED otherVars
  \/ HandleVerifyKey /\ UNCHANGED otherVars
  \/ \E i \in 1..Len(verifications), isValid \in BOOLEAN :
       ValidateSettle(i, isValid) /\ UNCHANGED otherVars
  \/ \E i \in 1..Len(verifications), ok \in BOOLEAN :
       ModelsSettle(i, ok) /\ UNCHANGED otherVars
  \/ HandleSaveChanges /\ UNCHANGED otherVars
  \/ HandleBack /\ UNCHANGED otherVars
  \/ HandleReset /\ UNCHANGED otherVars

SettingsSpec == SettingsInit /\ [][SettingsNext]_vars

\* one call of buildTree
restVars == <<pipelineVars, historyVars, chatVars, settingsVars>>

TreeInit ==
  /\ PipelineIdle
  /\ HistoryIdle
  /\ ChatIdle
  /\ SettingsIdle
  /\ treeArgs \in TreeInputs
  /\ objectMap = [id \in AllIds |-> NoObject]
  /\ visited = {}
  /\ branches = {}
  /\ fullObjectCache = {}
  /\ frames = <<>>
  /\ treeData = [state |-> "idle", tree |-> <<>>]

TreeNext ==
  \/ BuildTree /\ UNCHANGED restVars
  \/ EnterNode /\ UNCHANGED restVars
  \/ \E answered \in BOOLEAN : FetchSettle(answered) /\ UNCHANGED restVars
  \/ \E answered \in BOOLEAN : FullSettle(answered) /\ UNCHANGED restVars
  \/ ExpandNode /\ UNCHANGED restVars

TreeSpec == TreeInit /\ [][TreeNext]_vars

\* every step of buildTree is taken in the end: the requests settle
TreeFairness == WF_vars(TreeNext)

TreeFairSpec == TreeSpec /\ TreeFairness

TypeOK ==
  /\ pc \in {"start", "translate", "race", "parsed", "loop", "backoff", "translated", "probe", "api", "done"}
  /\ attempt \in 0..(args.retries + 1)
  /\ Len(calls) <= args.retries + 1

\* ------------------------------------------------------------------------
\* Properties
\* ------------------------------------------------------------------------
\* executeMcpCommand has been called
ExecutorCalled == command # NullCommand

\* translateWithRetry has returned
Returned == pc \in {"translated", "probe", "api", "done"}

MutatingRequests == {i \in 1..Len(requests) : requests[i].fn \in MutatingFns}
ObjectApiRequests == {i \in 1..Len(requests) : requests[i].fn \in ObjectApiFns}

IsParseFailure(r) == ~r.success /\ r.error = ErrParse
IsValidationFailure(r) == ~r.success /\ Len(r.error) > 0 /\ r.error[1] = "Validation failed"
IsTimeoutFailure(r) == ~r.success /\ r.error = ErrTimeout
IsRateLimitFailure(r) == ~r.success /\ r.error = ErrRateLimit
IsTransientFailure(r) == IsTimeoutFailure(r) \/ IsRateLimitFailure(r)

\* C1: in processMcpCommand the Executor, and so every Object API request
\* (the probe included), only ever sees the command of a successful
\* translation, for which validateMcpCommand returned valid; when the
\* translation ended in failure no request of any kind was made.
C1_ExecutorOnlyValidated ==
  args.entry = "processMcpCommand" =>
    /\ (ExecutorCalled \/ requests # <<>>) =>
         /\ validateMcpCommand(command) = Valid
         /\ translationResult.success
         /\ translationResult.command = command
    /\ (Returned /\ ~translationResult.success) => (requests = <<>> /\ ~ExecutorCalled)

C1_Witness ==
  /\ args.entry = "processMcpCommand"
  /\ pc = "done"
  /\ Len(attempts) > 1
  /\ Len(requests) = 2

\* C2: with an empty endpoint executeMcpCommand fails with "endpoint is not
\* configured" and issues no request at all; the first request is always the
\* probe, and when the probe finds the API unreachable the outcome is
\* "Cannot connect" and no further request follows.
C2_PreconditionsPrecedeRequests ==
  /\ (ExecutorCalled /\ args.anytypeEndpoint = Str(<<>>)) =>
       (executionResult = ExecFailure(ErrNoEndpoint) /\ requests = <<>>)
  /\ requests # <<>> => requests[1].fn = "validateAnytypeApi"
  /\ (requests # <<>> /\ requests[1].outcome \in {"http_error", "network_error"}) =>
       (executionResult = ExecFailure(ErrCannotConnect) /\ Len(requests) = 1)

C2_Witness ==
  /\ args.entry = "executeMcpCommand"
  /\ ActionIs(command, "CREATE_OBJECT")
  /\ Truthy(args.currentSpaceId)
  /\ pc = "done"
  /\ requests # <<>>
  /\ requests[1].outcome = "http_error"

\* C3: one invocation issues at most one create, update or delete request (and
\* at most one Object API request after the probe), whatever the number of
\* translation attempts and whether or not the request fails.
C3_AtMostOneMutatingRequest ==
  /\ Cardinality(MutatingRequests) <= 1
  /\ Cardinality(ObjectApiRequests) <= 1

C3_Witness ==
  /\ args.entry = "processMcpCommand"
  /\ pc = "done"
  /\ Len(attempts) = MAX_RETRIES + 1
  /\ \E i \in MutatingRequests : requests[i].outcome = "network_error"

\* C4: an attempt that ends in a parse failure or a validation failure is the
\* last one: translateWithRetry returns that failure at once, with no backoff
\* wait after it; when it is the first attempt exactly one LLM call was made.
C4_NoRetryAfterParseOrValidationFailure ==
  \A k \in 1..Len(attempts) :
    (IsParseFailure(attempts[k].result) \/ IsValidationFailure(attempts[k].result)) =>
      /\ k = Len(attempts)
      /\ Len(calls) = k
      /\ Len(waits) = k - 1
      /\ pc = "loop" \/ (Returned /\ translationResult = attempts[k].result)

C4_Witness ==
  /\ args.entry = "translateWithRetry"
  /\ args.retries = MAX_RETRIES
  /\ pc = "done"
  /\ Len(attempts) = 1
  /\ Len(calls) = 1
  /\ IsValidationFailure(attempts[1].result)

\* C5: the k-th backoff wait lasts 2^(k-1) seconds; when every attempt ends in
\* a timeout or rate-limit failure there are exactly retries+1 attempts, a wait
\* after each but the last, and the last failure is returned; a successful
\* attempt is returned at once and is the last.
C5_RetryWithExponentialBackoff ==
  /\ \A k \in 1..Len(waits) : waits[k] = 1000 * 2^(k - 1)
  /\ (attempts # <<>> /\ \A k \in 1..Len(attempts) : IsTransientFailure(attempts[k].result)) =>
       /\ Len(attempts) <= args.retries + 1
       /\ pc # "loop" =>
            /\ Len(waits) = IF Len(attempts) <= args.retries THEN Len(attempts) ELSE args.retries
            /\ Returned <=> Len(attempts) = args.retries + 1
            /\ Returned => translationResult = attempts[Len(attempts)].result
  /\ \A k \in 1..Len(attempts) :
       attempts[k].result.success =>
         /\ k = Len(attempts)
         /\ pc = "loop" \/ (Returned /\ translationResult = attempts[k].result)

C5_Witness ==
  /\ args.entry = "translateWithRetry"
  /\ args.retries = MAX_RETRIES
  /\ pc = "done"
  /\ Len(attempts) = MAX_RETRIES + 1
  /\ waits = <<1000, 2000>>
  /\ \A k \in 1..Len(attempts) : IsTransientFailure(attempts[k].result)
  /\ \E k \in 1..Len(attempts) : IsRateLimitFailure(attempts[k].result)
  /\ \E k \in 1..Len(attempts) : IsTimeoutFailure(attempts[k].result)

\* C6: a configuration error is never retried: after it translateWithRetry
\* makes no further attempt and sets no backoff timer.
C6_ConfigErrorNeverRetried ==
  (attempts # <<>> /\ attempts[1].result.error = ErrConfigIncomplete) =>
    /\ Len(attempts) = 1
    /\ waits = <<>>
    /\ pc = "loop" \/ Returned

\* the input guards of translateToMcpCommand, as the claim words them
BlankText(s) == \A i \in 1..Len(s) : s[i] \in WhiteSpace
GuardedInput ==
  \/ BlankText(args.userMessage)
  \/ args.ai.aiProvider = <<>>
  \/ args.ai.apiKey = <<>>
  \/ args.ai.model = <<>>

\* C7: with empty or blank text, or a missing provider, key or model, every
\* attempt fails and no LLM call is ever started, also across the retries of
\* translateWithRetry.
C7_GuardsMakeNoLlmCall ==
  GuardedInput =>
    /\ calls = <<>>
    /\ \A k \in 1..Len(attempts) :
         /\ ~attempts[k].result.success
         /\ attempts[k].call = 0
         /\ attempts[k].result.error \in {ErrProvideCommand, ErrConfigIncomplete}

C7_Witness ==
  /\ args.entry = "translateWithRetry"
  /\ args.ai.model = <<>>
  /\ ~BlankText(args.userMessage)
  /\ pc = "done"
  /\ Len(attempts) > 1
  /\ calls = <<>>

\* C8: when the timer of a call fires before the provider call settles, the
\* race stays rejected and the attempt that awaited it returns the timeout
\* failure; a reply arriving later is never parsed: every result that was
\* computed from a reply belongs to a call the provider settled first, and so
\* does the command of a successful translation and of an execution.
C8_LateReplyDiscarded ==
  /\ \A i \in 1..Len(calls) :
       calls[i].first = "timer" =>
         /\ calls[i].race = [state |-> "rejected", value |-> <<>>]
         /\ \A k \in 1..Len(attempts) :
              attempts[k].call = i =>
                attempts[k].result = TranslationFailure(ErrTimeout, NullCommand)
  /\ \A k \in 1..Len(attempts) :
       (attempts[k].call # 0 /\ ~IsTimeoutFailure(attempts[k].result)) =>
         calls[attempts[k].call].first = "llm"
  /\ (translationResult.success \/ ExecutorCalled) =>
       (args.entry # "executeMcpCommand" =>
          /\ calls[attempts[Len(attempts)].call].first = "llm"
          /\ translationResult = attempts[Len(attempts)].result)

C8_Witness ==
  /\ args.entry = "processMcpCommand"
  /\ pc = "done"
  /\ executionResult.success
  /\ calls[1].first = "timer"
  /\ calls[1].llm = "settled"
  /\ IsTimeoutFailure(attempts[1].result)

\* ------------------------------------------------------------------------
\* Fairness: timers fire, suspended functions resume, and the fetches of the
\* Object API settle (transport defaults).  Nothing is assumed of the provider
\* call of the LLM: it may never settle.
\* ------------------------------------------------------------------------
Scheduled ==
  \/ StartTranslate
  \/ TranslateGuarded
  \/ TranslateCall
  \/ \E i \in 1..Len(calls) : TimerFire(i)
  \/ TranslateResume
  \/ TranslateValidate
  \/ RetryLoop
  \/ BackoffElapsed
  \/ TranslateReturned
  \/ StartExecute
  \/ \E o \in FetchOutcomes : ProbeSettle(o)
  \/ \E o \in FetchOutcomes : ApiSettle(o)
  \/ ProcessPlain
  \/ ProcessThrows
  \/ ProcessTranslate
  \/ ProcessTranslationFailed
  \/ ProcessExecute
  \/ Validate
  \/ Parse
  \/ Classify

Fairness == WF_vars(Scheduled)

FairSpec == Spec /\ Fairness

\* a command-routed message has just been submitted
Submitted ==
  /\ pc = "start"
  /\ args.entry = "processMcpCommand"
  /\ shouldProcessAsMcpCommand(args.userMessage)

Terminal ==
  /\ pc = "done"
  /\ message.role = "model"
  /\ message.executionStatus \in {"success", "failed"}

\* C9: under that fairness every command-routed message leads to a returned
\* message whose status is failed or success.
C9_EveryCommandTerminates == Submitted ~> Terminal

C9_Witness ==
  /\ args.entry = "processMcpCommand"
  /\ Terminal
  /\ Len(calls) = MAX_RETRIES + 1
  /\ \A i \in 1..Len(calls) : calls[i].llm = "pending"

\* the shape of an ExecutionOutcome
WellShaped(o) ==
  IF o.success
  THEN o.keys = {"success", "data"} /\ o.data # "none" /\ o.error = <<>>
  ELSE o.keys = {"success", "error"} /\ o.error # <<>> /\ o.data = "none"

\* C10: once executeMcpCommand has returned, what it resolved to is an
\* outcome with data and no error on success, with an error message and no
\* data on failure; a thrown error ends up as such a failure, never as a
\* rejection.
C10_ExecutorNeverRejects ==
  (ExecutorCalled /\ pc = "done") => WellShaped(executionResult)

C10_Witness ==
  /\ ExecutorCalled
  /\ pc = "done"
  /\ requests # <<>>
  /\ executionResult = ExecFailure(TypeErrorText)

\* the text of a message shows `errorText`
Shows(msg, errorText) == includes(msg.text, errorText)

FailedWith(msg, errorText) ==
  /\ msg.role = "model"
  /\ msg.executionStatus = "failed"
  /\ msg.executionError = errorText
  /\ Shows(msg, errorText)

\* C11: once processMcpCommand has returned it has returned a message, never
\* a rejection; an exception thrown by the classification, a failed
\* translation and a failed execution each end in a message of the assistant
\* with executionStatus 'failed' whose executionError is the error text, and
\* that text is part of the message text.
C11_OrchestratorNeverRejects ==
  (args.entry = "processMcpCommand" /\ pc = "done") =>
    /\ message.role \in {"user", "model"}
    /\ args.typeofUserMessage # "string" => FailedWith(message, TypeErrorText)
    /\ (args.typeofUserMessage = "string" /\ shouldProcessAsMcpCommand(args.userMessage)) =>
         /\ ~translationResult.success => FailedWith(message, translationResult.error)
         /\ (ExecutorCalled /\ ~executionResult.success) =>
              FailedWith(message, executionResult.error)

C11_Witness ==
  /\ args.entry = "processMcpCommand"
  /\ args.typeofUserMessage = "undefined"
  /\ pc = "done"
  /\ message.executionStatus = "failed"

\* the message says what was understood and carries the command
Understood(msg, cmd) ==
  /\ msg.mcpCommand = cmd
  /\ Len(msg.text) >= Len(translatedCommandMessage(cmd).text)
  /\ SubSeq(msg.text, 1, Len(translatedCommandMessage(cmd).text)) = translatedCommandMessage(cmd).text

MessageInvariant ==
  /\ ("executionError" \in message.keys) <=> (message.executionStatus = "failed")
  /\ message.executionStatus = "failed" => message.executionError # <<>>
  /\ (args.entry = "processMcpCommand" /\ pc = "done" /\ message.role = "model") =>
       message.executionStatus \in {"success", "failed"}
  /\ (args.entry = "processMcpCommand" /\ ExecutorCalled /\ message # NoMessage) =>
       /\ Understood(message, command)
       /\ (message.executionStatus = "pending") <=> (pc # "done")
       /\ pc = "done" =>
            message.executionStatus = IF executionResult.success THEN "success" ELSE "failed"

MessageStep ==
  message' # message =>
    /\ message.executionStatus \in {"none", "pending"}
    /\ message.executionStatus = "pending" =>
         /\ message'.executionStatus \in {"success", "failed"}
         /\ Understood(message', message.mcpCommand)
         /\ message'.role = message.role

\* C12: every message processMcpCommand returns for a command has status
\* 'success' or 'failed', never 'pending'; the status only moves from pending
\* to success or to failed, on the message built after the translation, and
\* does not move again; executionError is set exactly when the status is
\* 'failed'; the 'understood' text and the command stay in the message on
\* both outcomes.
C12_StatusMovesOnce == []MessageInvariant /\ [][MessageStep]_vars

C12_Witness ==
  /\ args.entry = "processMcpCommand"
  /\ pc = "done"
  /\ ExecutorCalled
  /\ Len(requests) = 2
  /\ message.executionStatus = "failed"
  /\ Understood(message, command)

\* the outcomes of a fetch that are a failed request
FailedFetch == {"unauthorized", "http_error", "network_error"}

\* C13: when the Object API request made for the command failed (network
\* error or non-success status) the execution outcome is a failure with an
\* error message, and the chat message, if any, has status 'failed'.
C13_FailedRequestReportedAsFailure ==
  (ExecutorCalled /\ pc = "done") =>
    \A i \in ObjectApiRequests :
      requests[i].outcome \in FailedFetch =>
        /\ ~executionResult.success
        /\ executionResult.error # <<>>
        /\ args.entry = "processMcpCommand" => message.executionStatus = "failed"

\* attempt k awaited a provider call that failed (network or transport error)
\* before the timer fired
SawLlmFailure(k) ==
  /\ attempts[k].call # 0
  /\ calls[attempts[k].call].llmThrew
  /\ calls[attempts[k].call].first = "llm"

\* C14: an attempt whose LLM call failed in the transport is followed, while
\* retries are left, by a backoff wait and another attempt.
C14_LlmFailureRetried ==
  \A k \in 1..Len(attempts) :
    (SawLlmFailure(k) /\ Returned /\ k <= args.retries) =>
      /\ Len(attempts) > k
      /\ Len(waits) >= k

\* the preconditions of executeMcpCommand held: the endpoint is configured
\* and the probe found the API
PreconditionsHeld ==
  /\ requests # <<>>
  /\ validateAnytypeApi(requests[1].outcome)

AddRelationDone ==
  /\ ExecutorCalled
  /\ ActionIs(command, "ADD_RELATION")
  /\ pc = "done"

\* C15 (as stated): executeMcpCommand on an ADD_RELATION command always
\* yields a failure whose error contains 'not yet implemented' and issues no
\* create, update or delete request.
C15_AddRelationAlwaysStub ==
  AddRelationDone =>
    /\ ~executionResult.success
    /\ includes(executionResult.error, <<"not yet implemented">>)
    /\ MutatingRequests = {}

\* C15 (amended): executeMcpCommand on an ADD_RELATION command always fails,
\* whatever the parameters, and issues no request but the probe; the error
\* contains 'not yet implemented' when the preconditions held, and is the
\* error of the failed precondition otherwise.
C15_AddRelationStubAfterPreconditions ==
  AddRelationDone =>
    /\ ~executionResult.success
    /\ MutatingRequests = {}
    /\ ObjectApiRequests = {}
    /\ IF PreconditionsHeld
       THEN includes(executionResult.error, <<"not yet implemented">>)
       ELSE executionResult.error \in {ErrNoEndpoint, ErrCannotConnect, TypeErrorText}

C15_Witness ==
  /\ AddRelationDone
  /\ PreconditionsHeld
  /\ command.parameters = Undefined
  /\ includes(executionResult.error, <<"not yet implemented">>)

\* what the rule table says of a command, read off its parameters
ValidatorReturned == args.entry = "validateMcpCommand" /\ pc = "done"
Missing(cmd) ==
  {k \in 1..Len(RequiredOf(cmd.action.s[1])) :
     \A i \in 1..Len(cmd.parameters.entries) :
       cmd.parameters.entries[i].key # RequiredOf(cmd.action.s[1])[k]}
BlankParameters(cmd) ==
  {i \in 1..Len(cmd.parameters.entries) :
     /\ cmd.parameters.entries[i].value.t = "string"
     /\ \A j \in 1..Len(cmd.parameters.entries[i].value.s) :
          cmd.parameters.entries[i].value.s[j] \in WhiteSpace}
LimitOf(a, key) ==
  CASE a \in {"CREATE_OBJECT", "UPDATE_OBJECT"} /\ key = "name" -> 256
    [] a \in {"CREATE_OBJECT", "UPDATE_OBJECT"} /\ key = "body" -> 10000
    [] a = "SEARCH_OBJECTS" /\ key = "query" -> 1000
    [] OTHER -> 0
TooLong(cmd) ==
  {i \in 1..Len(cmd.parameters.entries) :
     /\ cmd.parameters.entries[i].value.t = "string"
     /\ LimitOf(cmd.action.s[1], cmd.parameters.entries[i].key) > 0
     /\ Len(cmd.parameters.entries[i].value.s) >
          LimitOf(cmd.action.s[1], cmd.parameters.entries[i].key)}
RuledCommand(cmd) ==
  /\ cmd.action.t = "string"
  /\ Len(cmd.action.s) = 1
  /\ cmd.action.s[1] \in RuleActions
  /\ cmd.parameters.t = "object"

\* C16: for a command whose action is in the rule table, when a required
\* parameter is absent the result is valid=false and the reason names an
\* absent required parameter (the one omitted, when only one is); when every
\* required parameter is there, no string parameter is blank and none is over
\* its limit, the result is valid=true.
C16_RequiredParametersEnforced ==
  (ValidatorReturned /\ RuledCommand(args.command)) =>
    /\ ~validationResult.threw
    /\ Missing(args.command) # {} =>
         /\ ~validationResult.valid
         /\ \E k \in Missing(args.command) :
              validationResult.error =
                <<"Missing required parameter: ", RequiredOf(args.command.action.s[1])[k]>>
    /\ (/\ Missing(args.command) = {}
        /\ BlankParameters(args.command) = {}
        /\ TooLong(args.command) = {}) => validationResult = Valid

C16_Witness ==
  /\ ValidatorReturned
  /\ args.command = Command("ADD_RELATION", Omit("ADD_RELATION", 2))
  /\ validationResult.error = <<"Missing required parameter: ", "target_object_id">>

\* C17: with the required parameters there and no blank string, a command is
\* valid exactly when no string is longer than its declared limit (name 256,
\* body 10000, query 1000): a string of exactly the limit is accepted, one
\* character more is rejected with 'exceeds maximum length of <limit>'.
C17_MaxLengthBoundary ==
  (/\ ValidatorReturned
   /\ RuledCommand(args.command)
   /\ Missing(args.command) = {}
   /\ BlankParameters(args.command) = {}) =>
    /\ validationResult.valid <=> TooLong(args.command) = {}
    /\ TooLong(args.command) # {} =>
         \E i \in TooLong(args.command) :
           validationResult.error =
             <<"Parameter ", args.command.parameters.entries[i].key,
               " exceeds maximum length of ",
               ToString(LimitOf(args.command.action.s[1], args.command.parameters.entries[i].key))>>

C17_Witness ==
  /\ ValidatorReturned
  /\ ActionIs(args.command, "CREATE_OBJECT")
  /\ Len(GetProp(args.command.parameters, "name").s) = 257
  /\ validationResult = Invalid(<<"Parameter ", "name", " exceeds maximum length of ", "256">>)

\* the boundary cases of C17 are among the inputs, on both sides
C17_Accepted ==
  /\ ValidatorReturned
  /\ ActionIs(args.command, "CREATE_OBJECT")
  /\ Len(GetProp(args.command.parameters, "body").s) = 10000
  /\ validationResult = Valid

\* the action of the command names no rule set of the table
NoRuleSet(cmd) ==
  ~(cmd.action.t = "string" /\ Len(cmd.action.s) = 1 /\ cmd.action.s[1] \in RuleActions)

\* C18: a command whose action has no rule set is rejected by
\* validateMcpCommand with 'Unknown action'; a command the Executor is given
\* by processMcpCommand has an action of the rule table, and its outcome is
\* never 'Unknown operation'.
C18_UnknownActionRejected ==
  /\ (ValidatorReturned /\ NoRuleSet(args.command)) =>
       /\ ~validationResult.threw
       /\ ~validationResult.valid
       /\ startsWith(validationResult.error, <<"Unknown action">>)
  /\ (args.entry = "processMcpCommand" /\ ExecutorCalled) =>
       /\ ~NoRuleSet(command)
       /\ ~includes(executionResult.error, <<"Unknown operation">>)

ParserReturned == args.entry = "parseAiResponse" /\ pc = "done"

\* a command object with action, parameters and description
WellFormedCommand(v) ==
  /\ v.t = "object"
  /\ Truthy(GetProp(v, "action"))
  /\ Truthy(GetProp(v, "parameters"))
  /\ Truthy(GetProp(v, "description"))

\* the first JSON object of the reply: nothing before it has a brace
FirstObjects(r) ==
  {i \in 1..Len(r) : r[i].k = "json" /\ \A j \in 1..(i - 1) : r[j].k \in {"space", "prose"}}

\* C19: when the first braces of a reply are those of a well-formed command
\* object, parseAiResponse returns that object's action, parameters and
\* description, whatever text follows it (prose, text with braces, a second
\* object).
C19_FirstObjectExtracted ==
  ParserReturned =>
    \A i \in FirstObjects(args.response) :
      WellFormedCommand(args.response[i].json) =>
        parsedCommand = [action |-> GetProp(args.response[i].json, "action"),
                         parameters |-> GetProp(args.response[i].json, "parameters"),
                         description |-> GetProp(args.response[i].json, "description")]

\* the text from the first "{" to the last "}" of a reply, as segment indexes
Delimited(r) ==
  \E i \in 1..Len(r) : \E j \in i..Len(r) : r[i].k \in HasOpen /\ r[j].k \in HasClose
SoleObject(r) ==
  {i \in 1..Len(r) :
     /\ r[i].k = "json"
     /\ \A j \in 1..Len(r) : j # i => r[j].k \notin (HasOpen \cup HasClose) \/
                                       (j < i /\ r[j].k = "close") \/ (j > i /\ r[j].k = "open")}
LacksBoth(v) == ~HasProp(v, "action") /\ ~HasProp(v, "parameters")

\* C20: parseAiResponse returns null, and returns rather than throws, for a
\* reply with no brace-delimited text, for one whose delimited text is not
\* JSON, and for an object with neither action nor parameters; what it
\* returns otherwise has an action and parameters.  In translateToMcpCommand
\* a null ends the attempt with 'Failed to parse AI response as valid MCP
\* command' and the raw reply.
C20_ParseFailureIsNull ==
  /\ ParserReturned =>
       /\ ~Delimited(args.response) => parsedCommand = NullCommand
       /\ (Delimited(args.response) /\ SoleObject(args.response) = {}) =>
            parsedCommand = NullCommand
       /\ \A i \in SoleObject(args.response) :
            LacksBoth(args.response[i].json) => parsedCommand = NullCommand
       /\ parsedCommand # NullCommand =>
            (Truthy(parsedCommand.action) /\ Truthy(parsedCommand.parameters))
  /\ \A k \in 1..Len(attempts) :
       (/\ attempts[k].call # 0
        /\ calls[attempts[k].call].first = "llm"
        /\ parseAiResponse(calls[attempts[k].call].race.value) = NullCommand) =>
         attempts[k].result =
           [success |-> FALSE, error |-> ErrParse, command |-> NullCommand,
            rawResponse |-> <<calls[attempts[k].call].race.value>>]

C20_Witness ==
  /\ ParserReturned
  /\ args.response = <<Prose, BareJson, Prose>>
  /\ parsedCommand = NullCommand

C20_ParseFailureReturned ==
  /\ args.entry = "translateWithRetry"
  /\ pc = "done"
  /\ attempts # <<>>
  /\ attempts[1].result.rawResponse = <<ReplyProse>>

\* the classifier rejects the text processMcpCommand was called with
PlainText ==
  /\ args.entry = "processMcpCommand"
  /\ args.typeofUserMessage = "string"
  /\ ~shouldProcessAsMcpCommand(args.userMessage)

\* C21: for text the classifier rejects no LLM call and no request is ever
\* made and no translation is attempted; the message returned has role
\* 'user', the text it was given, unchanged, and no command, status or error.
C21_PlainTextPassedThrough ==
  PlainText =>
    /\ calls = <<>>
    /\ requests = <<>>
    /\ attempts = <<>>
    /\ ~ExecutorCalled
    /\ pc \in {"start", "done"}
    /\ pc = "done" =>
         /\ message.role = "user"
         /\ message.text = args.userMessage
         /\ message.keys = {}
         /\ message.mcpCommand = NullCommand
         /\ message.executionStatus = "none"
         /\ message.executionError = <<>>

C21_Witness ==
  /\ PlainText
  /\ pc = "done"
  /\ args.userMessage = MsgBlank
  /\ message.text = MsgBlank

ClassifierReturned == args.entry = "shouldProcessAsMcpCommand" /\ pc = "done"

\* the verbs and phrases as the specification lists them
ListedVerbs ==
  {<<"c","r","e","a","t","e">>,
   <<"a","d","d">>,
   <<"n","e","w">>,
   <<"m","a","k","e">>,
   <<"u","p","d","a","t","e">>,
   <<"m","o","d","i","f","y">>,
   <<"c","h","a","n","g","e">>,
   <<"d","e","l","e","t","e">>,
   <<"r","e","m","o","v","e">>,
   <<"s","e","a","r","c","h">>,
   <<"f","i","n","d">>,
   <<"s","h","o","w">>,
   <<"l","i","s","t">>,
   <<"g","e","t">>,
   <<"l","i","n","k">>,
   <<"o","r","g","a","n","i","z","e">>}
ListedPhrases ==
  {<<"c","r","e","a","t","e"," ","a">>,
   <<"a","d","d"," ","a">>,
   <<"m","a","k","e"," ","a">>,
   <<"n","e","w"," ">>,
   <<"s","e","a","r","c","h"," ","f","o","r">>,
   <<"f","i","n","d"," ">>,
   <<"l","i","s","t"," ","a","l","l">>,
   <<"s","h","o","w"," ","a","l","l">>}
BeginsWithVerb(text) == \E v \in ListedVerbs : startsWith(text, v)
ContainsPhrase(text) == \E p \in ListedPhrases : includes(text, p)

\* C22 (as stated): the result is true exactly when the lower-cased text
\* begins with a listed verb or contains a listed phrase.
C22_ClassifierOnLowerCasedText ==
  ClassifierReturned =>
    (classification = "true" <=>
       (BeginsWithVerb(toLowerCase(args.userMessage))
          \/ ContainsPhrase(toLowerCase(args.userMessage))))

\* C22 (amended): the result is true exactly when the lower-cased text, with
\* the white space at both ends removed, begins with a listed verb or
\* contains a listed phrase; 'Create a new page about taxes' gives true and
\* 'what do you think about taxes?' gives false.
C22_ClassifierOnTrimmedText ==
  ClassifierReturned =>
    /\ classification = "true" <=>
         (BeginsWithVerb(trim(toLowerCase(args.userMessage)))
            \/ ContainsPhrase(trim(toLowerCase(args.userMessage))))
    /\ classification \in {"true", "false"}
    /\ args.userMessage = TextTaxesCommand => classification = "true"
    /\ args.userMessage = TextTaxesQuestion => classification = "false"

C22_Witness ==
  /\ ClassifierReturned
  /\ args.userMessage = <<" ", "l", "i", "s", "t">>
  /\ classification = "true"

\* the network calls that have been started and have not settled
OutstandingLlmCalls == {i \in 1..Len(calls) : calls[i].llm = "pending"}
OutstandingRequests == {i \in 1..Len(requests) : requests[i].outcome = "pending"}

\* C25: within one command's pipeline at most one network call (completion
\* call, reachability probe or Object API call) is outstanding at any time.
C25_OneCallOutstanding ==
  Cardinality(OutstandingLlmCalls) + Cardinality(OutstandingRequests) <= 1

\* the errors of the parameter checks in the execute* helpers
ParameterCheckErrors ==
  {<<"Object name and type are required">>,
   <<"Object ID is required">>,
   <<"Search query is required">>}

\* C27: a command that passed validateMcpCommand is never turned down by the
\* Executor's own parameter checks, whatever the value types of its
\* parameters.
C27_ValidatedPassesExecutorChecks ==
  (/\ args.entry = "processMcpCommand"
   /\ pc = "done"
   /\ translationResult.success
   /\ ExecutorCalled
   /\ \E a \in {"CREATE_OBJECT", "UPDATE_OBJECT", "DELETE_OBJECT",
                 "GET_OBJECT", "SEARCH_OBJECTS"} : ActionIs(command, a))
    => (executionResult.success \/ executionResult.error \notin ParameterCheckErrors)

\* the persisted chat history
Persisted == IF localStorage.present THEN JsonParse(localStorage) ELSE <<>>

\* String -> Number: the id taken as a timestamp
RECURSIVE timestamp(_)
timestamp(id) ==
  IF id = <<>> THEN 0
  ELSE 10 * timestamp(SubSeq(id, 1, Len(id) - 1)) + (Rank(id[Len(id)]) - 1)

NewestFirst(list) ==
  \A i, j \in 1..Len(list) : i < j => timestamp(list[i].id) >= timestamp(list[j].id)
OneEntryPerId(list) ==
  \A i, j \in 1..Len(list) : i # j => list[i].id # list[j].id

InFlight == {i \in 1..Len(cycles) : cycles[i].pc \in {"title", "reply"}}

\* C23: at most one send cycle is in flight at a time, and the user
\* messages and their replies are appended to the transcript in submission
\* order: message 1, reply 1, message 2, reply 2, ...
C23_OneSendCycleAtATime ==
  /\ Cardinality(InFlight) <= 1
  /\ \A k \in 1..Len(appended) :
       appended[k] = [n |-> (k + 1) \div 2,
                      role |-> IF k % 2 = 1 THEN "user" ELSE "model"]

C23_Witness ==
  /\ Len(cycles) = 2
  /\ InFlight = {}
  /\ Len(appended) = 4
  /\ appended[3] = [n |-> 2, role |-> "user"]

\* the messages of the active chat as persisted
PersistedTranscript == ShownFor(activeChatId, localStorage)

\* C28: the reply is appended to the displayed transcript of the chat its
\* message was sent in, so once no send is in flight the displayed
\* transcript is that of the active chat as persisted.
C28_ReplyShownInItsChat ==
  InFlight = {} => messages = PersistedTranscript

\* the ids of the persisted chats
PersistedIds == {Persisted[i].id : i \in 1..Len(Persisted)}

\* C29: a chat deleted with handleDeleteChat stays deleted.
C29_DeletedStaysDeleted ==
  deleted \cap PersistedIds = {}

\* C30: the provider, key and model are persisted only when the key in the
\* form has itself been verified valid, or is empty: a key that is stored
\* is one validateApiKey has found valid for the stored provider.
C30_OnlyVerifiedKeySaved ==
  settings.aiApiKey # <<>> => <<settings.aiProvider, settings.aiApiKey>> \in verified

\* the ids of the nodes of a tree, in document order
RECURSIVE NodeIds(_)
RECURSIVE ForestIds(_)
NodeIds(node) == <<node.id>> \o ForestIds(node.children)
ForestIds(nodes) ==
  IF nodes = <<>> THEN <<>> ELSE NodeIds(Head(nodes)) \o ForestIds(Tail(nodes))

\* the ids that resolve to an object: those of the list and those the API holds
Resolvable ==
  {id \in AllIds : treeArgs.objects[id].present \/ treeArgs.server[id].present}

TreeBuilt == treeData.state = "built"
TreeSound ==
  LET ids == ForestIds(treeData.tree)
  IN /\ \A k \in 1..Len(ids) : ids[k] \in Resolvable
     /\ \A j, k \in 1..Len(ids) : j # k => ids[j] # ids[k]

\* a tree is being built of a list that is not empty
TreeRequested == \E id \in AllIds : treeArgs.objects[id].present

\* C26: building the tree terminates on every object graph, cyclic ones
\* included, and the tree has no node for an id that does not resolve to an
\* object and no object id more than once.
C26_TreeBuiltSound ==
  /\ TreeRequested ~> TreeBuilt
  /\ [](TreeBuilt => TreeSound)

C26_Witness ==
  /\ TreeBuilt
  /\ treeArgs.server["a"].links = <<"b", "c">>
  /\ treeArgs.server["b"].links = <<"a">>
  /\ treeArgs.server["c"].links = <<"c", Dangling>>
  /\ ForestIds(treeData.tree) = <<"a", "b", "c">>

====
